---- MODULE Spec2Model ----
(***************************************************************************)
(* A model of the APIPoker betting engine.                                 *)
(*                                                                         *)
(* Three front ends drive the same PokerGame class:                        *)
(*   "mem"  src/main.py: one PokerGame object per game id, kept in the     *)
(*          process for the whole hand;                                    *)
(*   "ws"   src/backend/websockets/handlers.py: the game is persisted as   *)
(*          a JSON snapshot and a PokerGame is rebuilt from it for every   *)
(*          message;                                                       *)
(*   "rest" src/backend/main.py: as "ws", with the rebuild written inline. *)
(*                                                                         *)
(* Strings whose characters the code inspects (card tokens, player names)  *)
(* are sequences of one-character strings.  The suit symbols of the source *)
(* are written "s", "h", "d", "c".                                         *)
(***************************************************************************)
EXTENDS Integers, Sequences, FiniteSets, TLC

VARIABLES
    engine,   \* where the game lives: "mem" (process) or "backend" (database)
    game,     \* mem: games[game_id], the PokerGame object
    state,    \* ws, rest: Game.state, the persisted snapshot
    pre,      \* history: game (mem) or state (ws, rest) before the last request
    credits,  \* backend: User.credits by username, in half chips
    pre_credits, \* history: credits before the last request
    game_end, \* backend: what check_game_end did in the last request
    last,     \* history: the last request and its outcome
    steps,    \* number of requests handled so far
    agent_calls, \* history: the agent decisions taken during the last request
    threads,  \* the requests being handled at the same time (see SpecRace,
              \* SpecRegistration)
    ai_model, \* backend: the PokerAIModel singleton and its file (see SpecAgent)
    connection_manager, \* backend: the ConnectionManager singleton (see
                        \* SpecConnections)
    sockets,  \* backend: the WebSocket connections made so far and what each
              \* has been sent (see SpecConnections)
    tournaments \* backend: the tournaments and tournament_participants tables
                \* (see SpecTournament)

vars == <<engine, game, state, pre, credits, pre_credits, game_end, last, steps,
          agent_calls, threads, ai_model, connection_manager, sockets,
          tournaments>>

\* The parts of the backend that the requests on a game leave alone.
other_services == <<connection_manager, sockets, tournaments>>

----------------------------------------------------------------------------
(* Bounds of the model. *)

\* Requests handled per game.
MaxSteps == 2

\* Outcomes of random.shuffle that are explored (see Shuffled).
NumShuffles == 2

\* WebSocket connections made to the backend.
MaxSockets == 3

\* Tournaments created.
MaxTournaments == 1

\* Optional[int]: None is the empty set, the integer x is {x}.
None == {}

Some(x) == {x}

Value(opt) == CHOOSE x \in opt : TRUE

----------------------------------------------------------------------------
(* Cards and the deck: src/poker_game.py, src/backend/poker_logic.py *)

SUITS == <<"s", "h", "d", "c">>

RANKS == << <<"2">>, <<"3">>, <<"4">>, <<"5">>, <<"6">>, <<"7">>, <<"8">>,
            <<"9">>, <<"1", "0">>, <<"J">>, <<"Q">>, <<"K">>, <<"A">> >>

Card(suit, rank) == [suit |-> suit, rank |-> rank]

\* Card.__str__ / __repr__: f'{self.rank}{self.suit}'
CardStr(c) == c.rank \o <<c.suit>>

\* A reading of a token that takes the rank to be its first character.
CardFromTokenOneChar(c) == Card(c[Len(c)], SubSeq(c, 1, 1))

\* Card(c[-1], c[:-1]) applied to a token
CardFromToken(c) == Card(c[Len(c)], SubSeq(c, 1, Len(c) - 1))

\* [Card(s, r) for s in SUITS for r in RANKS], built card by card up to
\* card number n.
RECURSIVE CardsUpTo(_)
CardsUpTo(n) ==
    IF n = 0
    THEN <<>>
    ELSE Append(CardsUpTo(n - 1),
                Card(SUITS[((n - 1) \div Len(RANKS)) + 1],
                     RANKS[((n - 1) % Len(RANKS)) + 1]))

OrderedCards == CardsUpTo(Len(SUITS) * Len(RANKS))

\* random.shuffle(self.cards) may leave any permutation.  The model explores
\* the permutations i -> Mult[k] * i + Offs[k] (mod 52), k in 1..NumShuffles,
\* each followed by the exchanges of positions listed in Swaps[k]; every
\* multiplier is coprime to 52.
Mult == <<1, 51, 5, 7, 11, 3, 9, 15>>
Offs == <<0, 51, 2, 3, 0, 7, 1, 4>>

\* An affine permutation never puts two cards of one rank among four
\* neighbours.  The exchanges of outcome 2 bring two fives to the top of the
\* deck, so that the first player is dealt a pocket pair and the second
\* player a hand with the same highest rank.
Swaps == << <<>>, << <<52, 23>>, <<51, 36>> >>, <<>>, <<>>, <<>>, <<>>, <<>>, <<>> >>

RECURSIVE Exchanged(_, _)
Exchanged(cards, pairs) ==
    IF pairs = <<>>
    THEN cards
    ELSE LET a == Head(pairs)[1]
             b == Head(pairs)[2]
         IN  Exchanged([cards EXCEPT ![a] = cards[b], ![b] = cards[a]], Tail(pairs))

RECURSIVE Permuted(_, _)
Permuted(k, n) ==
    IF n = 0
    THEN <<>>
    ELSE Append(Permuted(k, n - 1),
                OrderedCards[((Mult[k] * (n - 1) + Offs[k]) % Len(OrderedCards)) + 1])

RECURSIVE DecksUpTo(_)
DecksUpTo(k) ==
    IF k = 0 THEN <<>>
    ELSE Append(DecksUpTo(k - 1),
                Exchanged(Permuted(k, Len(OrderedCards)), Swaps[k]))

ShuffledDecks == DecksUpTo(Len(Mult))

Shuffled(k) == ShuffledDecks[k]

ShuffleChoices == 1..NumShuffles

AnyShuffle == CHOOSE k \in ShuffleChoices : TRUE

\* Deck.__init__
Deck(k) == [cards |-> Shuffled(k)]

\* Deck.draw: [self.cards.pop() for _ in range(n)].  pop() takes the last
\* card; when the deck runs out IndexError is raised and the pops already
\* made stay done.
RECURSIVE Draw(_, _)
Draw(deck, n) ==
    IF n = 0
    THEN [ok |-> TRUE, drawn |-> <<>>, deck |-> deck]
    ELSE IF deck.cards = <<>>
         THEN [ok |-> FALSE, drawn |-> <<>>, deck |-> deck]
         ELSE LET have == Len(deck.cards)
                  more == Draw([cards |-> SubSeq(deck.cards, 1, have - 1)], n - 1)
              IN  [ok    |-> more.ok,
                   drawn |-> IF more.ok THEN <<deck.cards[have]>> \o more.drawn
                             ELSE <<>>,
                   deck  |-> more.deck]

Range(f) == {f[x] : x \in DOMAIN f}

----------------------------------------------------------------------------
(* PokerGame: src/poker_game.py, src/backend/poker_logic.py *)

\* A deal of one card to each player.
RECURSIVE DealOneFrom(_, _, _, _)
DealOneFrom(players, i, hands, deck) ==
    IF i > Len(players)
    THEN [ok |-> TRUE, hands |-> hands, deck |-> deck]
    ELSE LET d == Draw(deck, 1)
         IN  IF ~d.ok
             THEN [ok |-> FALSE, hands |-> hands, deck |-> d.deck]
             ELSE DealOneFrom(players, i + 1,
                              [hands EXCEPT ![players[i]] = d.drawn], d.deck)

\* PokerGame.deal, the loop "for p in self.players: self.hands[p] =
\* self.deck.draw(2)", from player number i on.
RECURSIVE DealFrom(_, _, _, _)
DealFrom(players, i, hands, deck) ==
    IF i > Len(players)
    THEN [ok |-> TRUE, hands |-> hands, deck |-> deck]
    ELSE LET d == Draw(deck, 2)
         IN  IF ~d.ok
             THEN [ok |-> FALSE, hands |-> hands, deck |-> d.deck]
             ELSE DealFrom(players, i + 1,
                           [hands EXCEPT ![players[i]] = d.drawn], d.deck)

\* PokerGame.__init__ followed by deal(), with shuffle outcome k.
PokerGame(players, k) ==
    LET dealt == DealFrom(players, 1, [p \in Range(players) |-> <<>>], Deck(k))
    IN  [players        |-> players,
         hands          |-> dealt.hands,
         deck           |-> dealt.deck,
         community      |-> <<>>,
         pot            |-> 0,
         current_bet    |-> 0,
         active_players |-> Range(players),
         bets           |-> [p \in Range(players) |-> 0]]

\* Whether the constructor returns (no draw raised IndexError).
PokerGameOk(players, k) ==
    DealFrom(players, 1, [p \in Range(players) |-> <<>>], Deck(k)).ok

\* self.community += self.deck.draw(n): when the draw raises, the community
\* is not assigned and the deck keeps the pops already made.
Reveal(g, n) ==
    LET d == Draw(g.deck, n)
    IN  IF d.ok
        THEN [g EXCEPT !.community = @ \o d.drawn, !.deck = d.deck]
        ELSE [g EXCEPT !.deck = d.deck]

RevealOk(g, n) == Draw(g.deck, n).ok

flop(g) == Reveal(g, 3)

turn(g) == Reveal(g, 1)

river(g) == Reveal(g, 1)

\* PokerGame.to_dict.  active_players is list(self.active_players): the
\* order of that list is the set's iteration order and every reader turns
\* it back into a set, so the snapshot keeps it as a set.
to_dict(g) ==
    [players        |-> g.players,
     hands          |-> [p \in Range(g.players) |->
                            [i \in DOMAIN g.hands[p] |-> CardStr(g.hands[p][i])]],
     community      |-> [i \in DOMAIN g.community |-> CardStr(g.community[i])],
     pot            |-> g.pot,
     current_bet    |-> g.current_bet,
     active_players |-> g.active_players,
     bets           |-> g.bets]

\* create_poker_game_from_state: a new PokerGame (new shuffled Deck, k its
\* shuffle outcome, two cards drawn per player) whose fields, except the
\* deck, are then overwritten from the snapshot.
create_poker_game_from_state(game_state, k) ==
    [PokerGame(game_state.players, k) EXCEPT
        !.hands          = [p \in Range(game_state.players) |->
                               [i \in DOMAIN game_state.hands[p] |->
                                   CardFromToken(game_state.hands[p][i])]],
        !.community      = [i \in DOMAIN game_state.community |->
                               CardFromToken(game_state.community[i])],
        !.pot            = game_state.pot,
        !.current_bet    = game_state.current_bet,
        !.active_players = game_state.active_players,
        !.bets           = game_state.bets]

----------------------------------------------------------------------------
(* Player names.  A name is used as a key as it is; where the code looks   *)
(* at its characters, NameChars gives them.                                *)

\* A table of 25 players, "user01" to "user25".
Seats25 ==
    <<"user01", "user02", "user03", "user04", "user05", "user06", "user07",
      "user08", "user09", "user10", "user11", "user12", "user13", "user14",
      "user15", "user16", "user17", "user18", "user19", "user20", "user21",
      "user22", "user23", "user24", "user25">>

DigitChars == <<"0", "1", "2", "3", "4", "5", "6", "7", "8", "9">>

NameChars(name) ==
    CASE name \in {Seats25[i] : i \in DOMAIN Seats25} ->
             LET i == CHOOSE j \in DOMAIN Seats25 : Seats25[j] = name
             IN  <<"u", "s", "e", "r",
                   DigitChars[(i \div 10) + 1], DigitChars[(i % 10) + 1]>>
      [] name = "user"      -> <<"u", "s", "e", "r">>
      [] name = "User2"     -> <<"U", "s", "e", "r", "2">>
      [] name = "ai_1"      -> <<"a", "i", "_", "1">>
      [] name = "ai_player" -> <<"a", "i", "_", "p", "l", "a", "y", "e", "r">>
      [] name = "alice"     -> <<"a", "l", "i", "c", "e">>
      [] name = "bob"       -> <<"b", "o", "b">>
      [] name = "A"         -> <<"A">>
      [] name = "B"         -> <<"B">>

\* str.lower on the characters that occur in the names above
LowerChar(ch) ==
    CASE ch = "U" -> "u"
      [] ch = "A" -> "a"
      [] ch = "B" -> "b"
      [] OTHER    -> ch

lower(chars) == [i \in DOMAIN chars |-> LowerChar(chars[i])]

\* str.startswith
startswith(chars, prefix) ==
    /\ Len(chars) >= Len(prefix)
    /\ SubSeq(chars, 1, Len(prefix)) = prefix

----------------------------------------------------------------------------
(* The betting steps.  src/main.py 47-59; the same statements are repeated *)
(* in src/backend/main.py 148-160 and                                      *)
(* src/backend/websockets/handlers.py 100-113, and for the automated       *)
(* players in src/main.py 70-82, src/backend/main.py 169-180 and           *)
(* src/backend/websockets/handlers.py 125-135.                             *)

\* A fold that also hands the folding player's bet back.
ApplyFoldRefund(g, player) ==
    [g EXCEPT !.active_players = @ \ {player},
              !.pot = @ - g.bets[player],
              !.bets[player] = 0]

\* game.active_players.remove(player)
ApplyFold(g, player) ==
    [g EXCEPT !.active_players = @ \ {player}]

\* A call that forgets the pot.
ApplyCallNoPot(g, player) ==
    LET bet == g.current_bet - g.bets[player]
    IN  [g EXCEPT !.bets[player] = @ + bet]

\* bet = game.current_bet - game.bets[player]; bets[player] += bet; pot += bet
ApplyCall(g, player) ==
    LET bet == g.current_bet - g.bets[player]
    IN  [g EXCEPT !.bets[player] = @ + bet, !.pot = @ + bet]

\* bet = amount - game.bets[player]; current_bet = amount;
\* bets[player] += bet; pot += bet
ApplyRaise(g, player, amount) ==
    LET bet == amount - g.bets[player]
    IN  [g EXCEPT !.current_bet = amount, !.bets[player] = @ + bet, !.pot = @ + bet]

\* The own step with the raise check written "<" for "<=".
PlayerStepLooseRaise(g, player, action, amount) ==
    IF player \notin g.active_players
    THEN [result |-> "PlayerNotActive", game |-> g]
    ELSE CASE action = "fold" ->
                [result |-> "ok", game |-> ApplyFold(g, player)]
           [] action = "call" ->
                [result |-> "ok", game |-> ApplyCall(g, player)]
           [] action = "raise" ->
                IF amount = None \/ Value(amount) < g.current_bet
                THEN [result |-> "InvalidRaise", game |-> g]
                ELSE [result |-> "ok", game |-> ApplyRaise(g, player, Value(amount))]
           [] OTHER ->
                [result |-> "UnknownAction", game |-> g]

\* The requesting player's own step: the active check, then the branch on
\* the action.  result is "ok" or the failure; game is the game after it.
PlayerStep(g, player, action, amount) ==
    IF player \notin g.active_players
    THEN [result |-> "PlayerNotActive", game |-> g]
    ELSE CASE action = "fold" ->
                [result |-> "ok", game |-> ApplyFold(g, player)]
           [] action = "call" ->
                [result |-> "ok", game |-> ApplyCall(g, player)]
           [] action = "raise" ->
                IF amount = None \/ Value(amount) <= g.current_bet
                THEN [result |-> "InvalidRaise", game |-> g]
                ELSE [result |-> "ok", game |-> ApplyRaise(g, player, Value(amount))]
           [] OTHER ->
                [result |-> "UnknownAction", game |-> g]

\* The orders in which a Python set of players may be iterated.
Orderings(S) == {o \in [1..Cardinality(S) -> S] : Range(o) = S}

AgentActions == {"fold", "call", "raise"}

----------------------------------------------------------------------------
(* Automated players of the in-memory front end: src/main.py 63-83 *)

\* [p for p in game.active_players if not p.lower().startswith('user')]
MemAIPlayers(g) ==
    {p \in g.active_players :
        ~startswith(lower(NameChars(p)), <<"u", "s", "e", "r">>)}

\* One automated player's move; action is the outcome of random.choice.
MemAIMove(g, ai, action) ==
    CASE action = "fold"  -> ApplyFold(g, ai)
      [] action = "call"  -> ApplyCall(g, ai)
      [] action = "raise" -> ApplyRaise(g, ai, g.current_bet + 10)

\* for ai in ai_players: ...   order is the iteration order of the list,
\* choice[ai] the outcome of random.choice for ai.
RECURSIVE MemAILoop(_, _, _)
MemAILoop(g, order, choice) ==
    IF order = <<>>
    THEN g
    ELSE MemAILoop(MemAIMove(g, Head(order), choice[Head(order)]),
                   Tail(order), choice)

\* What is recorded of one agent decision: the player it was taken for,
\* whether that player was active in the game the agent saw, that game's
\* current_bet, and the decision.
AgentCall(g, player, action, amount) ==
    [player      |-> player,
     active      |-> player \in g.active_players,
     current_bet |-> g.current_bet,
     action      |-> action,
     amount      |-> amount]

\* The decisions of MemAILoop, in the order taken.
RECURSIVE MemAICalls(_, _, _)
MemAICalls(g, order, choice) ==
    IF order = <<>>
    THEN <<>>
    ELSE LET ai     == Head(order)
             action == choice[ai]
         IN  <<AgentCall(g, ai, action,
                         IF action = "raise" THEN Some(g.current_bet + 10) ELSE None)>>
             \o MemAICalls(MemAIMove(g, ai, action), Tail(order), choice)

----------------------------------------------------------------------------
(* The random agent: src/backend/ai_agent.py *)

\* An agent whose raise repeats the current bet.
ai_choose_action_flat(game_state, player_name, choice) ==
    [action |-> choice,
     amount |-> IF choice = "raise" THEN Some(game_state.current_bet) ELSE None]

\* ai_choose_action; choice is the outcome of random.choice(actions).
ai_choose_action(game_state, player_name, choice) ==
    [action |-> choice,
     amount |-> IF choice = "raise" THEN Some(game_state.current_bet + 10) ELSE None]

----------------------------------------------------------------------------
(* The classifier agent: src/backend/ml_models/poker_model.py *)

\* Assumed starting stack of predict_action.
StartingChips == 1000

\* hand_ranks.get(rank, 0): '2' -> 2, ..., '10' -> 10, 'J' -> 11, ..., 'A' -> 14
hand_ranks(rank) ==
    IF \E i \in DOMAIN RANKS : RANKS[i] = rank
    THEN 1 + (CHOOSE i \in DOMAIN RANKS : RANKS[i] = rank)
    ELSE 0

RECURSIVE SumSeq(_)
SumSeq(q) == IF q = <<>> THEN 0 ELSE Head(q) + SumSeq(Tail(q))

Min(a, b) == IF a <= b THEN a ELSE b

Max(a, b) == IF a >= b THEN a ELSE b

\* evaluate_hand_strength, in units of 1/140: sum/28 is 5*sum, the pair
\* bonus 0.3 is 42, each match bonus 0.1 is 14, and the result is clamped
\* to 0..140 (0.0..1.0).
evaluate_hand_strength(player_hand, community) ==
    LET player_ranks    == [i \in DOMAIN player_hand |->
                               SubSeq(player_hand[i], 1, Len(player_hand[i]) - 1)]
        community_ranks == {SubSeq(community[i], 1, Len(community[i]) - 1) :
                               i \in DOMAIN community}
        player_values   == [i \in DOMAIN player_ranks |-> hand_ranks(player_ranks[i])]
        base            == 5 * SumSeq(player_values)
        pair            == IF Len(player_ranks) = 2 /\ player_ranks[1] = player_ranks[2]
                           THEN 42 ELSE 0
        matches         == 14 * Cardinality({i \in DOMAIN player_ranks :
                                                player_ranks[i] \in community_ranks})
    IN  Min(Max(base + pair + matches, 0), 140)

\* A predict_action whose raise is not capped by the player's chips.
predict_action_uncapped(game_state, player_name, action_code) ==
    LET hand_strength == evaluate_hand_strength(game_state.hands[player_name],
                                                game_state.community)
        current_bet   == game_state.current_bet
    IN  CASE action_code = 0 -> [action |-> "fold", amount |-> None]
          [] action_code = 1 -> [action |-> "call", amount |-> None]
          [] OTHER ->
               [action |-> "raise",
                amount |-> Some(IF hand_strength > 112 THEN current_bet * 3
                                ELSE IF hand_strength > 84 THEN current_bet * 2
                                     ELSE current_bet + 10)]

\* predict_action.  action_code is self.model.predict(features)[0]: the
\* classifier is whatever poker_rf_model.joblib holds (or the forest
\* bootstrapped from five samples), so any of its classes 0, 1, 2 may come
\* out.  hand_strength > 0.8 is > 112, > 0.6 is > 84 in units of 1/140.
predict_action(game_state, player_name, action_code) ==
    LET hand_strength == evaluate_hand_strength(game_state.hands[player_name],
                                                game_state.community)
        current_bet   == game_state.current_bet
        player_chips  == StartingChips - game_state.bets[player_name]
        min_raise     == current_bet + 10
    IN  CASE action_code = 0 -> [action |-> "fold", amount |-> None]
          [] action_code = 1 -> [action |-> "call", amount |-> None]
          [] OTHER ->
               [action |-> "raise",
                amount |-> Some(IF hand_strength > 112
                                THEN Min(current_bet * 3, player_chips)
                                ELSE IF hand_strength > 84
                                     THEN Min(current_bet * 2, player_chips)
                                     ELSE min_raise)]

ActionCodes == {0, 1, 2}

----------------------------------------------------------------------------
(* Automated players of the WebSocket front end:                           *)
(* src/backend/websockets/handlers.py 118-135                              *)

\* [p for p in poker_game.active_players if p.startswith('ai')]
WsAIPlayers(g) ==
    {p \in g.active_players : startswith(NameChars(p), <<"a", "i">>)}

\* One automated player's move for classifier output action_code.
WsAIMove(g, ai_player, action_code) ==
    LET ai_decision == predict_action(to_dict(g), ai_player, action_code)
        ai_action   == ai_decision.action
        ai_amount   == ai_decision.amount
    IN  CASE ai_action = "fold" -> ApplyFold(g, ai_player)
          [] ai_action = "call" -> ApplyCall(g, ai_player)
          [] ai_action = "raise" /\ ai_amount # None ->
                ApplyRaise(g, ai_player, Value(ai_amount))
          [] OTHER -> g

RECURSIVE WsAILoop(_, _, _)
WsAILoop(g, order, codes) ==
    IF order = <<>>
    THEN g
    ELSE WsAILoop(WsAIMove(g, Head(order), codes[Head(order)]),
                  Tail(order), codes)

\* The decisions of WsAILoop, in the order taken.
RECURSIVE WsAICalls(_, _, _)
WsAICalls(g, order, codes) ==
    IF order = <<>>
    THEN <<>>
    ELSE LET ai_player   == Head(order)
             ai_decision == predict_action(to_dict(g), ai_player, codes[ai_player])
         IN  <<AgentCall(g, ai_player, ai_decision.action, ai_decision.amount)>>
             \o WsAICalls(WsAIMove(g, ai_player, codes[ai_player]), Tail(order), codes)

\* The singleton ai_model = PokerAIModel() of a backend that is serving
\* requests: its constructor has returned.
ServingModel == [status |-> "ready", origin |-> "file", file |-> "valid",
                 writable |-> TRUE, fits |-> 0, saves |-> 0, error |-> ""]

----------------------------------------------------------------------------
(* Showdown: src/backend/poker_logic.py 59-78 and check_game_end,          *)
(* src/backend/websockets/handlers.py 231-263                              *)

\* rank_order = {r: i for i, r in enumerate(RANKS)}
rank_order(rank) == (CHOOSE i \in DOMAIN RANKS : RANKS[i] = rank) - 1

\* evaluate_hand: the rank_order of the highest card of hand + community
evaluate_hand(player_hand, community) ==
    LET all_cards == player_hand \o community
    IN  CHOOSE m \in {rank_order(all_cards[i].rank) : i \in DOMAIN all_cards} :
            \A i \in DOMAIN all_cards : rank_order(all_cards[i].rank) <= m

\* A loop in which a player who equals the best score takes the place of
\* the winners found so far.
RECURSIVE decide_winner_keep_last(_, _, _, _)
decide_winner_keep_last(g, order, best_score, winners) ==
    IF order = <<>>
    THEN winners
    ELSE LET p     == Head(order)
             score == evaluate_hand(g.hands[p], g.community)
         IN  IF score >= best_score
             THEN decide_winner_keep_last(g, Tail(order), score, <<p>>)
             ELSE decide_winner_keep_last(g, Tail(order), best_score, winners)

\* decide_winner, the loop over game.active_players in the order given.
RECURSIVE decide_winner_loop(_, _, _, _)
decide_winner_loop(g, order, best_score, winners) ==
    IF order = <<>>
    THEN winners
    ELSE LET p     == Head(order)
             score == evaluate_hand(g.hands[p], g.community)
         IN  IF score > best_score
             THEN decide_winner_loop(g, Tail(order), score, <<p>>)
             ELSE IF score = best_score
                  THEN decide_winner_loop(g, Tail(order), best_score,
                                          Append(winners, p))
                  ELSE decide_winner_loop(g, Tail(order), best_score, winners)

decide_winner(g, order) == decide_winner_loop(g, order, -1, <<>>)

\* Accounts of the users table.
Users == {"alice", "bob"}

\* User.credits, default 1000: src/backend/models.py 11
DefaultCredits == 1000

NoEnd == [kind |-> "none", winners |-> <<>>, pot_per_winner |-> 0]

\* A split that gives every winner the whole pot.
WholePot(pot, n) == 2 * pot

\* pot / len(winners) is a float division.  Amounts of credit are kept in
\* half chips, which is exact for one or two winners (the games of the
\* backend have two players).
HalfChips(pot, n) == (2 * pot) \div n

\* A check_game_end that compares the hands of all players of the game,
\* folded or not.
check_game_end_all_hands(g, order, cr) ==
    LET winners == decide_winner([g EXCEPT !.active_players = Range(g.players)],
                                 g.players)
    IN  IF winners = <<>>
        THEN [credits |-> cr,
              game_end |-> [kind |-> "ZeroDivisionError", winners |-> winners,
                            pot_per_winner |-> 0]]
        ELSE [credits  |-> [u \in DOMAIN cr |->
                               IF u \in Range(winners)
                               THEN cr[u] + HalfChips(g.pot, Len(winners))
                               ELSE cr[u]],
              game_end |-> [kind |-> "game_end", winners |-> winners,
                            pot_per_winner |-> HalfChips(g.pot, Len(winners))]]

\* check_game_end for the rebuilt game g; order is the iteration order of
\* active_players, cr the credits before.  With no active player
\* decide_winner returns [] and pot / len(winners) raises
\* ZeroDivisionError before anything is credited or broadcast.
check_game_end(g, order, cr) ==
    LET winners == IF Cardinality(g.active_players) = 1
                   THEN order
                   ELSE decide_winner(g, order)
    IN  IF winners = <<>>
        THEN [credits |-> cr,
              game_end |-> [kind |-> "ZeroDivisionError", winners |-> winners,
                            pot_per_winner |-> 0]]
        ELSE LET pot_per_winner == HalfChips(g.pot, Len(winners))
             IN  [credits  |-> [u \in DOMAIN cr |->
                                   IF u \in Range(winners)
                                   THEN cr[u] + pot_per_winner ELSE cr[u]],
                  game_end |-> [kind |-> "game_end", winners |-> winners,
                                pot_per_winner |-> pot_per_winner]]

----------------------------------------------------------------------------
(* The per-player view of a game_update:                                   *)
(* src/backend/websockets/connection_manager.py 116-131                    *)

\* The token "??"
Hidden == <<"?", "?">>

\* A view that hides nothing.
create_player_view_open(game_state, username) ==
    [view |-> game_state, game_state |-> game_state]

\* _create_player_view.  view is the dict returned; game_state is the
\* argument as the call leaves it: player_view and hands are copies
\* (game_state.copy(), game_state.get('hands', {}).copy()) and only the
\* copies are assigned to.
create_player_view(game_state, username) ==
    [view |-> [game_state EXCEPT
                  !.hands = [player \in DOMAIN game_state.hands |->
                                IF player # username
                                THEN [i \in DOMAIN game_state.hands[player] |-> Hidden]
                                ELSE game_state.hands[player]]],
     game_state |-> game_state]

----------------------------------------------------------------------------
(* Inputs of the requests. *)

\* Player lists a game is created with.  src/main.py takes any list;
\* src/backend/main.py creates [current_user.username, "ai_player"].
MemPlayerLists == { <<"user", "User2", "ai_1">>, <<"A", "B">>, Seats25 }

BackendPlayerLists == { <<"alice", "ai_player">> }

\* Who may send a request to the in-memory and WebSocket front ends (the
\* name is part of the request): the first three players of the game and
\* one outsider.  The REST front end acts for the authenticated user, one
\* of Users.
Requesters(players) ==
    {players[i] : i \in 1..Min(Len(players), 3)} \cup {"bob"}

RequestActions == {"fold", "call", "raise", "check"}

RaiseAmounts == {None, Some(0), Some(20), Some(1010)}

\* The amount field matters to a raise only.
AmountsFor(action) == IF action = "raise" THEN RaiseAmounts ELSE {None}

Commands == {"flop", "turn", "river", "showdown", "deal"}

Request(front, op, player, action, amount, result) ==
    [front |-> front, op |-> op, player |-> player, action |-> action,
     amount |-> amount, result |-> result]

\* The game as its owner holds it: the object (mem) or the stored snapshot.
Cur == IF engine = "mem" THEN game ELSE state

----------------------------------------------------------------------------
(* src/main.py: the in-memory front end *)

\* POST /action
MemPlayerAction(player, action, amount) ==
    /\ engine = "mem"
    /\ steps < MaxSteps
    /\ LET r == PlayerStep(game, player, action, amount)
       IN  /\ IF r.result = "ok"
              THEN \E order \in Orderings(MemAIPlayers(r.game)) :
                   \E choice \in [MemAIPlayers(r.game) -> AgentActions] :
                       /\ game' = MemAILoop(r.game, order, choice)
                       /\ agent_calls' = MemAICalls(r.game, order, choice)
              ELSE /\ game' = game
                   /\ agent_calls' = <<>>
           /\ last' = Request("mem", "action", player, action, amount, r.result)
    /\ pre' = game
    /\ steps' = steps + 1
    /\ pre_credits' = credits
    /\ UNCHANGED <<other_services, engine, state, credits, game_end, threads, ai_model>>

\* POST /flop, /turn, /river: games[game_id].flop() and so on, no check of
\* the stage.
MemReveal(op, n) ==
    /\ engine = "mem"
    /\ steps < MaxSteps
    /\ game' = Reveal(game, n)
    /\ last' = Request("mem", op, "", "", None,
                       IF RevealOk(game, n) THEN "ok" ELSE "IndexError")
    /\ pre' = game
    /\ steps' = steps + 1
    /\ pre_credits' = credits
    /\ agent_calls' = <<>>
    /\ UNCHANGED <<other_services, engine, state, credits, game_end, threads, ai_model>>

MemFlop == MemReveal("flop", 3)

MemTurn == MemReveal("turn", 1)

MemRiver == MemReveal("river", 1)

----------------------------------------------------------------------------
(* src/backend/websockets/handlers.py: the WebSocket front end *)

\* The end of both handlers: check_game_end runs when `ends` holds, after
\* the state has been stored.
WsGameEnd(g, ends) ==
    IF ends
    THEN \E order \in Orderings(g.active_players) :
           LET e == check_game_end(g, order, credits)
           IN  /\ credits' = e.credits
               /\ game_end' = e.game_end
    ELSE /\ credits' = credits
         /\ game_end' = NoEnd

\* handle_player_action.  The deck of the rebuilt game is never drawn from
\* in this handler, so one shuffle outcome stands for all of them.
WsPlayerAction(username, action, amount) ==
    /\ engine = "backend"
    /\ steps < MaxSteps
    /\ LET poker_game == create_poker_game_from_state(state, AnyShuffle)
           r          == PlayerStep(poker_game, username, action, amount)
       IN  /\ IF r.result = "ok"
              THEN \E order \in Orderings(WsAIPlayers(r.game)) :
                   \E codes \in [WsAIPlayers(r.game) -> ActionCodes] :
                       LET after == WsAILoop(r.game, order, codes)
                       IN  /\ state' = to_dict(after)
                           /\ agent_calls' = WsAICalls(r.game, order, codes)
                           /\ WsGameEnd(after,
                                        \/ Cardinality(after.active_players) <= 1
                                        \/ Len(after.community) = 5)
              ELSE /\ state' = state
                   /\ agent_calls' = <<>>
                   /\ UNCHANGED credits
                   /\ game_end' = NoEnd
           /\ last' = Request("ws", "action", username, action, amount, r.result)
    /\ pre' = state
    /\ steps' = steps + 1
    /\ pre_credits' = credits
    /\ UNCHANGED <<other_services, engine, game, threads, ai_model>>

\* The branch of handle_game_control on the command.
WsControlStep(poker_game, command) ==
    LET n == Len(poker_game.community)
        reveal(k) == IF RevealOk(poker_game, k)
                     THEN [result |-> "ok", game |-> Reveal(poker_game, k)]
                     ELSE [result |-> "IndexError", game |-> poker_game]
    IN  CASE command = "flop" /\ n = 0  -> reveal(3)
          [] command = "turn" /\ n = 3  -> reveal(1)
          [] command = "river" /\ n = 4 -> reveal(1)
          [] command = "showdown"       -> [result |-> "ok", game |-> poker_game]
          [] OTHER -> [result |-> "InvalidCommand", game |-> poker_game]

\* handle_game_control
WsGameControl(username, command) ==
    /\ engine = "backend"
    /\ steps < MaxSteps
    /\ \E k \in ShuffleChoices :
         LET poker_game == create_poker_game_from_state(state, k)
             r          == WsControlStep(poker_game, command)
         IN  /\ IF r.result = "ok"
                THEN /\ state' = to_dict(r.game)
                     /\ WsGameEnd(r.game,
                                  \/ command = "showdown"
                                  \/ Cardinality(r.game.active_players) <= 1)
                ELSE /\ state' = state
                     /\ UNCHANGED credits
                     /\ game_end' = NoEnd
             /\ last' = Request("ws", command, username, "", None, r.result)
    /\ pre' = state
    /\ steps' = steps + 1
    /\ pre_credits' = credits
    /\ agent_calls' = <<>>
    /\ UNCHANGED <<other_services, engine, game, threads, ai_model>>

----------------------------------------------------------------------------
(* src/backend/main.py: the REST front end *)

\* The rebuild written in every handler,
\*   poker_game.hands = {p: [poker_game.Card(c[-1], c[:-1]) for c in ...] ...}
\*   poker_game.community = [poker_game.Card(c[-1], c[:-1]) for c in ...]
\* reads the attribute Card of a PokerGame object.  PokerGame
\* (src/backend/poker_logic.py 21-57) has no such attribute, so the first
\* token that is converted raises AttributeError.
RestRestoreRaises(game_state) ==
    \/ \E p \in Range(game_state.players) : Len(game_state.hands[p]) > 0
    \/ Len(game_state.community) > 0

\* One automated move of "ai_player": src/backend/main.py 165-180
RestAIMove(g, choice) ==
    IF "ai_player" \in g.active_players
    THEN LET ai_decision == ai_choose_action(to_dict(g), "ai_player", choice)
         IN  CASE ai_decision.action = "fold"  -> ApplyFold(g, "ai_player")
               [] ai_decision.action = "call"  -> ApplyCall(g, "ai_player")
               [] ai_decision.action = "raise" ->
                     ApplyRaise(g, "ai_player", Value(ai_decision.amount))
    ELSE g

\* POST /games/{game_id}/action
RestPlayerAction(username, action, amount) ==
    /\ engine = "backend"
    /\ steps < MaxSteps
    /\ IF RestRestoreRaises(state)
       THEN /\ state' = state
            /\ agent_calls' = <<>>
            /\ last' = Request("rest", "action", username, action, amount,
                               "AttributeError")
       ELSE LET poker_game == create_poker_game_from_state(state, AnyShuffle)
                r          == PlayerStep(poker_game, username, action, amount)
            IN  /\ IF r.result = "ok"
                   THEN \E choice \in AgentActions :
                          /\ state' = to_dict(RestAIMove(r.game, choice))
                          /\ agent_calls' =
                                IF "ai_player" \in r.game.active_players
                                THEN LET d == ai_choose_action(to_dict(r.game),
                                                               "ai_player", choice)
                                     IN  <<AgentCall(r.game, "ai_player",
                                                     d.action, d.amount)>>
                                ELSE <<>>
                   ELSE /\ state' = state
                        /\ agent_calls' = <<>>
                /\ last' = Request("rest", "action", username, action, amount,
                                   r.result)
    /\ pre' = state
    /\ game_end' = NoEnd
    /\ steps' = steps + 1
    /\ pre_credits' = credits
    /\ UNCHANGED <<other_services, engine, game, credits, threads, ai_model>>

\* POST /games/{game_id}/flop, /turn, /river
RestReveal(username, op, n) ==
    /\ engine = "backend"
    /\ steps < MaxSteps
    /\ IF RestRestoreRaises(state)
       THEN /\ state' = state
            /\ last' = Request("rest", op, username, "", None, "AttributeError")
       ELSE \E k \in ShuffleChoices :
              LET poker_game == create_poker_game_from_state(state, k)
              IN  /\ state' = IF RevealOk(poker_game, n)
                              THEN to_dict(Reveal(poker_game, n))
                              ELSE state
                  /\ last' = Request("rest", op, username, "", None,
                                     IF RevealOk(poker_game, n)
                                     THEN "ok" ELSE "IndexError")
    /\ pre' = state
    /\ game_end' = NoEnd
    /\ steps' = steps + 1
    /\ pre_credits' = credits
    /\ agent_calls' = <<>>
    /\ UNCHANGED <<other_services, engine, game, credits, threads, ai_model>>

deal_flop(username) == RestReveal(username, "flop", 3)

deal_turn(username) == RestReveal(username, "turn", 1)

deal_river(username) == RestReveal(username, "river", 1)

\* POST /games/{game_id}/showdown: decide_winner for every case, and only
\* the requesting user is credited.
showdown(username) ==
    /\ engine = "backend"
    /\ steps < MaxSteps
    /\ IF RestRestoreRaises(state)
       THEN /\ last' = Request("rest", "showdown", username, "", None,
                               "AttributeError")
            /\ UNCHANGED credits
            /\ game_end' = NoEnd
       ELSE \E order \in Orderings(state.active_players) :
              LET poker_game == create_poker_game_from_state(state, AnyShuffle)
                  winners    == decide_winner(poker_game, order)
              IN  IF winners = <<>>
                  THEN /\ last' = Request("rest", "showdown", username, "", None,
                                          "ZeroDivisionError")
                       /\ UNCHANGED credits
                       /\ game_end' = NoEnd
                  ELSE LET pot_per_winner == HalfChips(poker_game.pot, Len(winners))
                       IN  /\ last' = Request("rest", "showdown", username, "",
                                              None, "ok")
                           /\ credits' =
                                 [u \in DOMAIN credits |->
                                     IF u = username /\ u \in Range(winners)
                                     THEN credits[u] + pot_per_winner
                                     ELSE credits[u]]
                           /\ game_end' = [kind |-> "showdown",
                                           winners |-> winners,
                                           pot_per_winner |-> pot_per_winner]
    /\ pre' = state
    /\ steps' = steps + 1
    /\ pre_credits' = credits
    /\ agent_calls' = <<>>
    /\ UNCHANGED <<other_services, engine, game, state, threads, ai_model>>

\* GET /ai/action/{game_id}/{ai_name}: the classifier's decision for ai_name
\* on the stored state; nothing is stored.  A name without an entry in
\* hands raises KeyError.
ai_action(ai_name, action_code) ==
    /\ engine = "backend"
    /\ steps < MaxSteps
    /\ IF ai_name \in DOMAIN state.hands
       THEN LET decision == predict_action(state, ai_name, action_code)
            IN  /\ agent_calls' = <<AgentCall(state, ai_name, decision.action,
                                              decision.amount)>>
                /\ last' = Request("rest", "ai_action", ai_name, decision.action,
                                   decision.amount, "ok")
       ELSE /\ agent_calls' = <<>>
            /\ last' = Request("rest", "ai_action", ai_name, "", None, "KeyError")
    /\ pre' = state
    /\ game_end' = NoEnd
    /\ steps' = steps + 1
    /\ pre_credits' = credits
    /\ UNCHANGED <<other_services, engine, game, state, credits, threads, ai_model>>

----------------------------------------------------------------------------
(* The system *)

NoGame == [players |-> <<>>]

\* ConnectionManager.__init__: three empty dicts.
NoConnections ==
    [table_connections |-> <<>>, user_connections |-> <<>>, user_tables |-> <<>>]

\* No WebSocket has connected yet.
NoSockets == <<>>

\* Empty tournaments and tournament_participants tables.
NoTournaments == [tournaments |-> <<>>, participants |-> <<>>]

\* The backend as it starts: no connection, no tournament.
ServicesStart ==
    /\ connection_manager = NoConnections
    /\ sockets = NoSockets
    /\ tournaments = NoTournaments

NewRequest == Request("", "create", "", "", None, "ok")

\* A game has just been created: POST /create_game (src/main.py 24-29) or
\* POST /games (src/backend/main.py 98-115).
Init ==
    /\ engine \in {"mem", "backend"}
    /\ \E k \in ShuffleChoices :
         \/ /\ engine = "mem"
            /\ \E players \in MemPlayerLists :
                 /\ PokerGameOk(players, k)
                 /\ game = PokerGame(players, k)
            /\ state = NoGame
            /\ pre = game
         \/ /\ engine = "backend"
            /\ \E players \in BackendPlayerLists :
                 /\ PokerGameOk(players, k)
                 /\ state = to_dict(PokerGame(players, k))
            /\ game = NoGame
            /\ pre = state
    /\ credits = [u \in Users |-> 2 * DefaultCredits]
    /\ pre_credits = credits
    /\ agent_calls = <<>>
    /\ threads = <<>>
    /\ ai_model = ServingModel
    /\ game_end = NoEnd
    /\ last = NewRequest
    /\ steps = 0
    /\ ServicesStart

Next ==
    \/ \E player \in Requesters(Cur.players) :
       \E action \in RequestActions :
       \E amount \in AmountsFor(action) :
           MemPlayerAction(player, action, amount)
    \/ MemFlop
    \/ MemTurn
    \/ MemRiver
    \/ \E username \in Requesters(Cur.players) :
       \E action \in RequestActions :
       \E amount \in AmountsFor(action) :
           WsPlayerAction(username, action, amount)
    \/ \E username \in Requesters(Cur.players) :
       \E command \in Commands :
           WsGameControl(username, command)
    \/ \E username \in Users :
       \E action \in RequestActions :
       \E amount \in AmountsFor(action) :
           RestPlayerAction(username, action, amount)
    \/ \E username \in Users : deal_flop(username)
    \/ \E username \in Users : deal_turn(username)
    \/ \E username \in Users : deal_river(username)
    \/ \E username \in Users : showdown(username)
    \/ \E ai_name \in Requesters(Cur.players) :
       \E action_code \in ActionCodes :
           ai_action(ai_name, action_code)

Spec == Init /\ [][Next]_vars

----------------------------------------------------------------------------
(* The life of the classifier agent: PokerAIModel.__init__,                *)
(* load_or_create_model, predict_action and update_model,                  *)
(* src/backend/ml_models/poker_model.py.  ai_model holds the object and    *)
(* its file poker_rf_model.joblib:                                         *)
(*   status   "none" (not constructed), "ready", or "error" (the           *)
(*            constructor raised);                                         *)
(*   origin   "file" (joblib.load) or "bootstrap" (_initial_training);     *)
(*   file     "valid", "missing", "corrupt" or "unreadable";               *)
(*   writable whether joblib.dump to the file succeeds;                    *)
(*   fits, saves  calls of self.model.fit and of joblib.dump so far.       *)

FileStates == {"valid", "missing", "corrupt", "unreadable"}

NoModel(file, writable) ==
    [status |-> "none", origin |-> "", file |-> file, writable |-> writable,
     fits |-> 0, saves |-> 0, error |-> ""]

\* load_or_create_model: the try catches FileNotFoundError only; what
\* joblib.load raises on a corrupt or unreadable file, and what joblib.dump
\* raises when the file cannot be written, leaves the constructor.
load_or_create_model(m) ==
    CASE m.file = "valid" ->
             [m EXCEPT !.status = "ready", !.origin = "file"]
      [] m.file = "missing" ->
             IF m.writable
             THEN [m EXCEPT !.status = "ready", !.origin = "bootstrap",
                            !.fits = @ + 1, !.saves = @ + 1, !.file = "valid"]
             ELSE [m EXCEPT !.status = "error", !.origin = "bootstrap",
                            !.fits = @ + 1, !.error = "OSError"]
      [] m.file = "corrupt" ->
             [m EXCEPT !.status = "error", !.error = "UnpicklingError"]
      [] m.file = "unreadable" ->
             [m EXCEPT !.status = "error", !.error = "PermissionError"]

\* The loop of update_model over game_history: its body is "pass", nothing
\* is appended to X_new and y_new.
RECURSIVE ExtractPairs(_, _)
ExtractPairs(game_history, pairs) ==
    IF game_history = <<>>
    THEN pairs
    ELSE ExtractPairs(Tail(game_history), pairs)

\* update_model: fit and dump only "if X_new and y_new".
update_model(m, game_history) ==
    LET X_new == ExtractPairs(game_history, <<>>)
        y_new == ExtractPairs(game_history, <<>>)
    IN  IF X_new # <<>> /\ y_new # <<>>
        THEN IF m.writable
             THEN [m EXCEPT !.fits = @ + 1, !.saves = @ + 1, !.file = "valid"]
             ELSE [m EXCEPT !.fits = @ + 1, !.error = "OSError"]
        ELSE m

\* Game records handed to update_model.
GameHistories == { <<>>, <<"record">>, <<"record", "record">> }

\* Hole cards and community the agent is asked about, as tokens: a pair of
\* aces (strength above 1 before the clamp), a pair of sevens (0.8), 9-8
\* (above 0.6), 9-5 with a nine on the board (0.6), 2-4, and a pair of
\* tens with two tens on the board.
AgentHands ==
    { [hand |-> << <<"A", "s">>, <<"A", "h">> >>, community |-> <<>>],
      [hand |-> << <<"7", "s">>, <<"7", "h">> >>, community |-> <<>>],
      [hand |-> << <<"9", "s">>, <<"8", "h">> >>, community |-> <<>>],
      [hand |-> << <<"9", "s">>, <<"5", "h">> >>,
       community |-> << <<"9", "d">>, <<"2", "s">>, <<"K", "c">> >>],
      [hand |-> << <<"2", "s">>, <<"4", "h">> >>, community |-> <<>>],
      [hand |-> << <<"1", "0", "s">>, <<"1", "0", "h">> >>,
       community |-> << <<"1", "0", "d">>, <<"1", "0", "c">>, <<"4", "c">> >>] }

\* current_bet and the bet of ai_player: before any raise, after alice
\* raised to 20, 400 or 1010, with ai_player behind or level.
AgentBets ==
    { <<0, 0>>, <<20, 0>>, <<20, 20>>, <<400, 20>>, <<400, 400>>,
      <<1010, 20>>, <<1010, 1010>> }

\* The stored state of a game of alice and ai_player in which alice holds
\* 2c 3d and has bet current_bet.
AgentState(h, b) ==
    [players        |-> <<"alice", "ai_player">>,
     hands          |-> [p \in {"alice", "ai_player"} |->
                            IF p = "ai_player" THEN h.hand
                            ELSE << <<"2", "c">>, <<"3", "d">> >>],
     community      |-> h.community,
     pot            |-> b[1] + b[2],
     current_bet    |-> b[1],
     active_players |-> {"alice", "ai_player"},
     bets           |-> [p \in {"alice", "ai_player"} |->
                            IF p = "ai_player" THEN b[2] ELSE b[1]]]

\* ai_model = PokerAIModel()
NewPokerAIModel ==
    /\ engine = "agent"
    /\ steps < MaxSteps
    /\ ai_model.status = "none"
    /\ ai_model' = load_or_create_model(ai_model)
    /\ last' = Request("agent", "construct", "", "", None,
                       IF ai_model'.status = "ready" THEN "ok" ELSE ai_model'.error)
    /\ pre' = ai_model
    /\ agent_calls' = <<>>
    /\ steps' = steps + 1
    /\ UNCHANGED <<other_services, engine, game, state, credits, pre_credits, game_end, threads>>

\* ai_model.predict_action(game_state, player_name)
AgentPredict(player_name, action_code) ==
    /\ engine = "agent"
    /\ steps < MaxSteps
    /\ ai_model.status = "ready"
    /\ LET decision == predict_action(state, player_name, action_code)
       IN  /\ last' = Request("agent", "predict_action", player_name,
                              decision.action, decision.amount, "ok")
           /\ agent_calls' = <<AgentCall(state, player_name, decision.action,
                                         decision.amount)>>
    /\ pre' = ai_model
    /\ steps' = steps + 1
    /\ UNCHANGED <<other_services, engine, game, state, credits, pre_credits, game_end, threads,
                   ai_model>>

\* ai_model.update_model(game_history)
AgentUpdate(game_history) ==
    /\ engine = "agent"
    /\ steps < MaxSteps
    /\ ai_model.status = "ready"
    /\ ai_model' = update_model(ai_model, game_history)
    /\ last' = Request("agent", "update_model", "", "", Some(Len(game_history)),
                       IF ai_model'.error = "" THEN "ok" ELSE ai_model'.error)
    /\ pre' = ai_model
    /\ agent_calls' = <<>>
    /\ steps' = steps + 1
    /\ UNCHANGED <<other_services, engine, game, state, credits, pre_credits, game_end, threads>>

\* The module is imported: the file is in one of its states, and the game
\* the agent will be asked about is stored.
AgentInit ==
    /\ engine = "agent"
    /\ \E file \in FileStates : \E writable \in BOOLEAN :
         ai_model = NoModel(file, writable)
    /\ \E h \in AgentHands : \E b \in AgentBets : state = AgentState(h, b)
    /\ pre = ai_model
    /\ game = NoGame
    /\ credits = [u \in Users |-> 2 * DefaultCredits]
    /\ pre_credits = credits
    /\ game_end = NoEnd
    /\ last = NewRequest
    /\ agent_calls = <<>>
    /\ threads = <<>>
    /\ steps = 0
    /\ ServicesStart

AgentNext ==
    \/ NewPokerAIModel
    \/ \E player_name \in {"alice", "ai_player"} :
       \E action_code \in ActionCodes :
           AgentPredict(player_name, action_code)
    \/ \E game_history \in GameHistories : AgentUpdate(game_history)

SpecAgent == AgentInit /\ [][AgentNext]_vars

----------------------------------------------------------------------------
(* Two POST /action requests on one game of src/main.py handled at the     *)
(* same time.  player_action is a plain "def": FastAPI runs it in a worker *)
(* thread per request, and the threads share the PokerGame in "games"      *)
(* without a lock.  A thread may be suspended between any two statements;  *)
(* threads[t] holds the request of thread t, the statement it is at, its   *)
(* locals bet and ai_players, and its response.                            *)
(*   pc: "start", "fold", "call", "raise", "raise_bet", "current_bet",     *)
(*       "bets", "pot", "ai", "loop", "done"                               *)

RaceThreads == {1, 2}

RacePlayers == <<"user", "User2", "ai_1">>

RaceRequests ==
    { [player |-> p, action |-> a, amount |-> m] :
        p \in {"user", "User2"},
        a \in {"fold", "call"}, m \in {None} }
    \cup
    { [player |-> p, action |-> "raise", amount |-> m] :
        p \in {"user", "User2"}, m \in {Some(20), Some(1010)} }

Thread(req) ==
    [req |-> req, pc |-> "start", bet |-> 0, ai_players |-> <<>>, result |-> ""]

Returned(th, result) == [th EXCEPT !.pc = "done", !.result = result]

RaceFrame ==
    UNCHANGED <<other_services, engine, state, pre, credits, pre_credits, game_end, last, steps,
                agent_calls, ai_model>>

\* if req.player not in game.active_players: raise ...; then the branch on
\* req.action.
RaceEnter(t) ==
    /\ engine = "race"
    /\ threads[t].pc = "start"
    /\ threads' = [threads EXCEPT ![t] =
                      IF @.req.player \notin game.active_players
                      THEN Returned(@, "PlayerNotActive")
                      ELSE [@ EXCEPT !.pc = threads[t].req.action]]
    /\ UNCHANGED game
    /\ RaceFrame

\* game.active_players.remove(req.player): KeyError when the other thread
\* removed the player since the check.
RaceFold(t) ==
    /\ engine = "race"
    /\ threads[t].pc = "fold"
    /\ IF threads[t].req.player \in game.active_players
       THEN /\ game' = ApplyFold(game, threads[t].req.player)
            /\ threads' = [threads EXCEPT ![t].pc = "ai"]
       ELSE /\ game' = game
            /\ threads' = [threads EXCEPT ![t] = Returned(@, "KeyError")]
    /\ RaceFrame

\* bet = game.current_bet - game.bets[req.player]
RaceCallBet(t) ==
    /\ engine = "race"
    /\ threads[t].pc = "call"
    /\ threads' = [threads EXCEPT
                      ![t].bet = game.current_bet - game.bets[threads[t].req.player],
                      ![t].pc  = "bets"]
    /\ UNCHANGED game
    /\ RaceFrame

\* if req.amount is None or req.amount <= game.current_bet: raise ...
RaceRaiseCheck(t) ==
    /\ engine = "race"
    /\ threads[t].pc = "raise"
    /\ threads' = [threads EXCEPT ![t] =
                      IF @.req.amount = None
                         \/ Value(@.req.amount) <= game.current_bet
                      THEN Returned(@, "InvalidRaise")
                      ELSE [@ EXCEPT !.pc = "raise_bet"]]
    /\ UNCHANGED game
    /\ RaceFrame

\* bet = req.amount - game.bets[req.player]
RaceRaiseBet(t) ==
    /\ engine = "race"
    /\ threads[t].pc = "raise_bet"
    /\ threads' = [threads EXCEPT
                      ![t].bet = Value(threads[t].req.amount)
                                    - game.bets[threads[t].req.player],
                      ![t].pc  = "current_bet"]
    /\ UNCHANGED game
    /\ RaceFrame

\* game.current_bet = req.amount
RaceSetCurrentBet(t) ==
    /\ engine = "race"
    /\ threads[t].pc = "current_bet"
    /\ game' = [game EXCEPT !.current_bet = Value(threads[t].req.amount)]
    /\ threads' = [threads EXCEPT ![t].pc = "bets"]
    /\ RaceFrame

\* game.bets[req.player] += bet
RaceAddBets(t) ==
    /\ engine = "race"
    /\ threads[t].pc = "bets"
    /\ game' = [game EXCEPT !.bets[threads[t].req.player] = @ + threads[t].bet]
    /\ threads' = [threads EXCEPT ![t].pc = "pot"]
    /\ RaceFrame

\* game.pot += bet
RaceAddPot(t) ==
    /\ engine = "race"
    /\ threads[t].pc = "pot"
    /\ game' = [game EXCEPT !.pot = @ + threads[t].bet]
    /\ threads' = [threads EXCEPT ![t].pc = "ai"]
    /\ RaceFrame

\* ai_players = [p for p in game.active_players if not ...]
RaceAIList(t) ==
    /\ engine = "race"
    /\ threads[t].pc = "ai"
    /\ \E order \in Orderings(MemAIPlayers(game)) :
         threads' = [threads EXCEPT ![t].ai_players = order, ![t].pc = "loop"]
    /\ UNCHANGED game
    /\ RaceFrame

\* One turn of "for ai in ai_players": the move of one automated player,
\* taken in one step; its fold raises KeyError when the other thread's loop
\* folded the player already.
RaceAIMove(t, action) ==
    /\ engine = "race"
    /\ threads[t].pc = "loop"
    /\ threads[t].ai_players # <<>>
    /\ LET ai == Head(threads[t].ai_players)
       IN  IF action = "fold" /\ ai \notin game.active_players
           THEN /\ game' = game
                /\ threads' = [threads EXCEPT ![t] = Returned(@, "KeyError")]
           ELSE /\ game' = MemAIMove(game, ai, action)
                /\ threads' = [threads EXCEPT ![t].ai_players = Tail(@)]
    /\ RaceFrame

\* return {'msg': ..., 'state': game.to_dict()}
RaceReturn(t) ==
    /\ engine = "race"
    /\ threads[t].pc = "loop"
    /\ threads[t].ai_players = <<>>
    /\ threads' = [threads EXCEPT ![t] = Returned(@, "ok")]
    /\ UNCHANGED game
    /\ RaceFrame

\* A game just created, and two requests received.
RaceInit ==
    /\ engine = "race"
    /\ game = PokerGame(RacePlayers, AnyShuffle)
    /\ pre = game
    /\ \E r1 \in RaceRequests : \E r2 \in RaceRequests :
         threads = [t \in RaceThreads |-> Thread(IF t = 1 THEN r1 ELSE r2)]
    /\ state = NoGame
    /\ credits = [u \in Users |-> 2 * DefaultCredits]
    /\ pre_credits = credits
    /\ agent_calls = <<>>
    /\ ai_model = ServingModel
    /\ game_end = NoEnd
    /\ last = NewRequest
    /\ steps = 0
    /\ ServicesStart

RaceNext ==
    \E t \in RaceThreads :
        \/ RaceEnter(t)
        \/ RaceFold(t)
        \/ RaceCallBet(t)
        \/ RaceRaiseCheck(t)
        \/ RaceRaiseBet(t)
        \/ RaceSetCurrentBet(t)
        \/ RaceAddBets(t)
        \/ RaceAddPot(t)
        \/ RaceAIList(t)
        \/ \E action \in AgentActions : RaceAIMove(t, action)
        \/ RaceReturn(t)

SpecRace == RaceInit /\ [][RaceNext]_vars

\* The outcomes of handling one request alone on game g: the response and
\* the game it leaves.
Handled(g, req) ==
    LET r == PlayerStep(g, req.player, req.action, req.amount)
    IN  IF r.result = "ok"
        THEN { [result |-> "ok", game |-> MemAILoop(r.game, order, choice)] :
                 order \in Orderings(MemAIPlayers(r.game)),
                 choice \in [MemAIPlayers(r.game) -> AgentActions] }
        ELSE { [result |-> r.result, game |-> g] }

\* The outcomes of handling first, then second, one after the other: the
\* two responses and the final game.
OneAfterTheOther(g, first, second) ==
    UNION { { [first |-> a.result, second |-> b.result, game |-> b.game] :
                b \in Handled(a.game, second) } :
            a \in Handled(g, first) }

----------------------------------------------------------------------------
(* The connection registry and what is sent over the WebSockets:           *)
(* src/backend/websockets/connection_manager.py and                        *)
(* handle_websocket_connection, src/backend/websockets/handlers.py 19-71.  *)
(* A socket is the number of the connection, in the order the connections  *)
(* were made; sockets[ws] holds the path it was opened with, whether it is *)
(* still open, and the messages delivered to it by the last step.  The     *)
(* game of table "1" is the stored state; table "2" has no game.           *)

Tables == {"1", "2"}

\* The table whose Game row exists.
GameTable == "1"

\* Python dicts as functions.
Put(d, k, v) == [x \in DOMAIN d \cup {k} |-> IF x = k THEN v ELSE d[x]]

Del(d, k) == [x \in DOMAIN d \ {k} |-> d[x]]

\* list.remove(x): the first occurrence is taken out.
RECURSIVE Remove(_, _)
Remove(list, x) ==
    IF list = <<>> THEN <<>>
    ELSE IF Head(list) = x THEN Tail(list)
         ELSE <<Head(list)>> \o Remove(Tail(list), x)

Message(type, game_state) == [type |-> type, state |-> game_state]

\* No socket has been sent anything yet in this step.
Quiet(socks) == [ws \in DOMAIN socks |-> [socks[ws] EXCEPT !.delivered = {}]]

\* connection.send_text(message_json): delivered unless the socket is
\* closed, in which case the exception is logged.
send_text(socks, ws, message) ==
    IF socks[ws].open
    THEN [socks EXCEPT ![ws].delivered = @ \cup {message}]
    ELSE socks

\* broadcast_to_table
broadcast_to_table(cm, socks, table_id, message) ==
    IF table_id \notin DOMAIN cm.table_connections
    THEN socks
    ELSE [ws \in DOMAIN socks |->
            IF ws \in Range(cm.table_connections[table_id])
            THEN send_text(socks, ws, message)[ws]
            ELSE socks[ws]]

\* send_personal_message
send_personal_message(cm, socks, username, message) ==
    IF username \notin DOMAIN cm.user_connections
    THEN socks
    ELSE send_text(socks, cm.user_connections[username], message)

\* update_game_state: every user registered at the table is sent the view
\* made for that user, over the socket registered for the user.
update_game_state(cm, socks, table_id, game_state) ==
    IF table_id \notin DOMAIN cm.table_connections
    THEN socks
    ELSE [ws \in DOMAIN socks |->
            [socks[ws] EXCEPT !.delivered = @ \cup
                { Message("game_update",
                          create_player_view(game_state, username).view) :
                    username \in {u \in DOMAIN cm.user_tables :
                                    /\ cm.user_tables[u] = table_id
                                    /\ u \in DOMAIN cm.user_connections
                                    /\ cm.user_connections[u] = ws
                                    /\ socks[ws].open} }]]

\* ConnectionManager.connect, the registration
connect(cm, websocket, table_id, username) ==
    [table_connections |->
        Put(cm.table_connections, table_id,
            (IF table_id \in DOMAIN cm.table_connections
             THEN cm.table_connections[table_id] ELSE <<>>) \o <<websocket>>),
     user_connections |-> Put(cm.user_connections, username, websocket),
     user_tables      |-> Put(cm.user_tables, username, table_id)]

\* ConnectionManager.disconnect, the clean-up
disconnect(cm, websocket, username) ==
    LET table_id == IF username \in DOMAIN cm.user_tables
                    THEN cm.user_tables[username] ELSE ""
    IN  [table_connections |->
            IF table_id \in DOMAIN cm.table_connections
            THEN [cm.table_connections EXCEPT ![table_id] = Remove(@, websocket)]
            ELSE cm.table_connections,
         user_connections |-> Del(cm.user_connections, username),
         user_tables      |-> Del(cm.user_tables, username)]

ConnFrame ==
    UNCHANGED <<engine, game, pre, credits, pre_credits, game_end, steps,
                agent_calls, threads, ai_model, tournaments>>

\* handle_websocket_connection up to its message loop: connect (with the
\* player_joined broadcast), then the initial_state message when the Game
\* row exists.
handle_websocket_connection(game_id, username) ==
    /\ engine = "connections"
    /\ Len(sockets) < MaxSockets
    /\ LET websocket == Len(sockets) + 1
           cm        == connect(connection_manager, websocket, game_id, username)
           opened    == Append(Quiet(sockets),
                               [table_id |-> game_id, username |-> username,
                                open |-> TRUE, delivered |-> {}])
           joined    == broadcast_to_table(cm, opened, game_id,
                                           Message("player_joined", NoGame))
       IN  /\ connection_manager' = cm
           /\ sockets' = IF game_id = GameTable
                         THEN send_personal_message(cm, joined, username,
                                  Message("initial_state", state))
                         ELSE joined
    /\ last' = Request("ws", "connect", username, "", None, "ok")
    /\ UNCHANGED state
    /\ ConnFrame

\* except WebSocketDisconnect: connection_manager.disconnect(websocket,
\* username), and the player_left broadcast it schedules.
WsDisconnect(websocket) ==
    /\ engine = "connections"
    /\ websocket \in DOMAIN sockets
    /\ sockets[websocket].open
    /\ LET username == sockets[websocket].username
           table_id == IF username \in DOMAIN connection_manager.user_tables
                       THEN connection_manager.user_tables[username] ELSE ""
           cm       == disconnect(connection_manager, websocket, username)
           closed   == [Quiet(sockets) EXCEPT ![websocket].open = FALSE]
       IN  /\ connection_manager' = cm
           /\ sockets' = IF table_id \in DOMAIN connection_manager.table_connections
                         THEN broadcast_to_table(cm, closed, table_id,
                                                 Message("player_left", NoGame))
                         ELSE closed
           /\ last' = Request("ws", "disconnect", username, "", None, "ok")
    /\ UNCHANGED state
    /\ ConnFrame

\* A game_control message read by the loop of the handler of an open
\* socket: handle_game_control with a command other than showdown, while
\* both players are active (check_game_end is not reached).
ConnGameControl(websocket, command) ==
    /\ engine = "connections"
    /\ websocket \in DOMAIN sockets
    /\ sockets[websocket].open
    /\ LET game_id  == sockets[websocket].table_id
           username == sockets[websocket].username
       IN  IF game_id # GameTable
           THEN /\ state' = state
                /\ sockets' = Quiet(sockets)
                /\ last' = Request("ws", command, username, "", None,
                                   "GameNotFound")
           ELSE \E k \in ShuffleChoices :
                  LET poker_game == create_poker_game_from_state(state, k)
                      r          == WsControlStep(poker_game, command)
                  IN  /\ last' = Request("ws", command, username, "", None,
                                         r.result)
                      /\ IF r.result = "ok"
                         THEN /\ state' = to_dict(r.game)
                              /\ sockets' =
                                   broadcast_to_table(connection_manager,
                                       update_game_state(connection_manager,
                                           Quiet(sockets), game_id, state'),
                                       game_id,
                                       Message("game_stage_update", NoGame))
                         ELSE /\ state' = state
                              /\ sockets' = Quiet(sockets)
    /\ UNCHANGED connection_manager
    /\ ConnFrame

\* The commands sent in this part: the first reveal, and one that
\* handle_game_control rejects.
ControlCommands == {"flop", "deal"}

\* The backend has started and a game of alice and ai_player is stored for
\* table "1".
ConnInit ==
    /\ engine = "connections"
    /\ \E k \in ShuffleChoices :
         state = to_dict(PokerGame(<<"alice", "ai_player">>, k))
    /\ pre = state
    /\ game = NoGame
    /\ credits = [u \in Users |-> 2 * DefaultCredits]
    /\ pre_credits = credits
    /\ agent_calls = <<>>
    /\ threads = <<>>
    /\ ai_model = ServingModel
    /\ game_end = NoEnd
    /\ last = NewRequest
    /\ steps = 0
    /\ ServicesStart

ConnNext ==
    \/ \E game_id \in Tables : \E username \in Users :
           handle_websocket_connection(game_id, username)
    \/ \E websocket \in 1..MaxSockets : WsDisconnect(websocket)
    \/ \E websocket \in 1..MaxSockets : \E command \in ControlCommands :
           ConnGameControl(websocket, command)

SpecConnections == ConnInit /\ [][ConnNext]_vars

----------------------------------------------------------------------------
(* A snapshot held while the game goes on: GET /game_state of src/main.py  *)
(* returns games[game_id].to_dict(), and the game is then operated on.     *)
(* to_dict builds new lists for hands, community and active_players and    *)
(* copies the integers pot and current_bet, but its 'players' and 'bets'   *)
(* entries are the game's own list and dict.  state holds the snapshot as  *)
(* it was returned.                                                        *)

\* GET /game_state/{game_id}
game_state ==
    /\ engine = "mem"
    /\ steps < MaxSteps
    /\ state = NoGame
    /\ state' = to_dict(game)
    /\ last' = Request("mem", "game_state", "", "", None, "ok")
    /\ pre' = game
    /\ steps' = steps + 1
    /\ pre_credits' = credits
    /\ agent_calls' = <<>>
    /\ UNCHANGED <<other_services, engine, game, credits, game_end, threads, ai_model>>

\* What the snapshot dict s of game g shows when it is read: its own
\* entries, and for 'players' and 'bets' the objects of g they refer to.
Shows(s, g) == [s EXCEPT !.players = g.players, !.bets = g.bets]

SnapshotInit ==
    /\ engine = "mem"
    /\ \E k \in ShuffleChoices : \E players \in MemPlayerLists :
         /\ PokerGameOk(players, k)
         /\ game = PokerGame(players, k)
    /\ state = NoGame
    /\ pre = game
    /\ credits = [u \in Users |-> 2 * DefaultCredits]
    /\ pre_credits = credits
    /\ agent_calls = <<>>
    /\ threads = <<>>
    /\ ai_model = ServingModel
    /\ game_end = NoEnd
    /\ last = NewRequest
    /\ steps = 0
    /\ ServicesStart

SnapshotNext ==
    \/ game_state
    \/ \E player \in Requesters(game.players) :
       \E action \in RequestActions :
       \E amount \in AmountsFor(action) :
           MemPlayerAction(player, action, amount)
    \/ MemFlop
    \/ MemTurn
    \/ MemRiver

SpecSnapshot == SnapshotInit /\ [][SnapshotNext]_vars

----------------------------------------------------------------------------
(* Tournaments: src/backend/tournaments/controllers.py.  The variable      *)
(* tournaments holds the rows of the two tables, in the order of their     *)
(* ids; credits holds User.credits of the accounts, in half chips.  Each   *)
(* request is handled alone here; SpecRegistration handles two at a time.  *)

\* Accounts of the users table that take part in tournaments.
Accounts == {"alice", "bob", "carol"}

\* buy_in of TournamentCreate: below and above the credits of an account.
BuyIns == {100, 1500}

\* max_players of TournamentCreate.
MaxPlayers == {2, 3}

\* The participant rows of tournament tournament_id.
ParticipantsOf(db, tournament_id) ==
    SelectSeq(db.participants, LAMBDA row : row.tournament_id = tournament_id)

Outcome(result, db, cr) == [result |-> result, db |-> db, credits |-> cr]

\* create_tournament.  future: tournament.start_time >= datetime.now().
\* The creator becomes the first participant and pays the buy-in; no check
\* of the creator's credits is made.
CreateStep(db, cr, user, buy_in, max_players, future) ==
    IF ~future
    THEN Outcome("StartTimeInPast", db, cr)
    ELSE LET tournament_id == Len(db.tournaments) + 1
         IN  Outcome("ok",
                     [tournaments  |-> Append(db.tournaments,
                                          [buy_in        |-> buy_in,
                                           max_players   |-> max_players,
                                           status        |-> "registering",
                                           prize_pool    |-> buy_in,
                                           created_by_id |-> user]),
                      participants |-> Append(db.participants,
                                          [tournament_id |-> tournament_id,
                                           user_id       |-> user,
                                           status        |-> "registered"])],
                     [cr EXCEPT ![user] = @ - 2 * buy_in])

\* register_for_tournament
RegisterStep(db, cr, user, tournament_id) ==
    IF tournament_id \notin DOMAIN db.tournaments
    THEN Outcome("NotFound", db, cr)
    ELSE LET tournament == db.tournaments[tournament_id]
             rows       == ParticipantsOf(db, tournament_id)
         IN  CASE tournament.status # "registering" ->
                     Outcome("NotOpen", db, cr)
               [] Len(rows) >= tournament.max_players ->
                     Outcome("Full", db, cr)
               [] \E i \in DOMAIN rows : rows[i].user_id = user ->
                     Outcome("AlreadyRegistered", db, cr)
               [] cr[user] < 2 * tournament.buy_in ->
                     Outcome("NotEnoughCredits", db, cr)
               [] OTHER ->
                     Outcome("ok",
                             [tournaments  |->
                                 [db.tournaments EXCEPT
                                     ![tournament_id].prize_pool =
                                         @ + tournament.buy_in],
                              participants |->
                                 Append(db.participants,
                                        [tournament_id |-> tournament_id,
                                         user_id       |-> user,
                                         status        |-> "registered"])],
                             [cr EXCEPT ![user] = @ - 2 * tournament.buy_in])

\* A start that any user may request.
StartStepByAnyone(db, cr, user, tournament_id) ==
    IF tournament_id \notin DOMAIN db.tournaments
    THEN Outcome("NotFound", db, cr)
    ELSE LET tournament == db.tournaments[tournament_id]
         IN  CASE tournament.status # "registering" ->
                     Outcome("CannotStart", db, cr)
               [] Len(ParticipantsOf(db, tournament_id)) < 2 ->
                     Outcome("TooFewPlayers", db, cr)
               [] OTHER ->
                     Outcome("ok",
                             [tournaments  |->
                                 [db.tournaments EXCEPT
                                     ![tournament_id].status = "active"],
                              participants |->
                                 [i \in DOMAIN db.participants |->
                                     IF db.participants[i].tournament_id
                                           = tournament_id
                                     THEN [db.participants[i] EXCEPT
                                              !.status = "active"]
                                     ELSE db.participants[i]]],
                             cr)

\* start_tournament
StartStep(db, cr, user, tournament_id) ==
    IF tournament_id \notin DOMAIN db.tournaments
    THEN Outcome("NotFound", db, cr)
    ELSE LET tournament == db.tournaments[tournament_id]
         IN  CASE tournament.created_by_id # user ->
                     Outcome("Forbidden", db, cr)
               [] tournament.status # "registering" ->
                     Outcome("CannotStart", db, cr)
               [] Len(ParticipantsOf(db, tournament_id)) < 2 ->
                     Outcome("TooFewPlayers", db, cr)
               [] OTHER ->
                     Outcome("ok",
                             [tournaments  |->
                                 [db.tournaments EXCEPT
                                     ![tournament_id].status = "active"],
                              participants |->
                                 [i \in DOMAIN db.participants |->
                                     IF db.participants[i].tournament_id
                                           = tournament_id
                                     THEN [db.participants[i] EXCEPT
                                              !.status = "active"]
                                     ELSE db.participants[i]]],
                             cr)

\* What a tournament request leaves alone.
TournamentFrame ==
    UNCHANGED <<engine, game, state, game_end, steps, agent_calls, threads,
                ai_model, connection_manager, sockets>>

\* The request is answered and its effect committed.
Answer(op, user, tournament_id, r) ==
    /\ tournaments' = r.db
    /\ credits' = r.credits
    /\ last' = Request("rest", op, user, "", tournament_id, r.result)
    /\ pre' = tournaments
    /\ pre_credits' = credits
    /\ TournamentFrame

\* POST /tournaments/
create_tournament(user, buy_in, max_players, future) ==
    /\ engine = "tournament"
    /\ Len(tournaments.tournaments) < MaxTournaments
    /\ Answer("create_tournament", user, None,
              CreateStep(tournaments, credits, user, buy_in, max_players, future))

\* POST /tournaments/{tournament_id}/register
register_for_tournament(user, tournament_id) ==
    /\ engine = "tournament"
    /\ Answer("register", user, Some(tournament_id),
              RegisterStep(tournaments, credits, user, tournament_id))

\* POST /tournaments/{tournament_id}/start
start_tournament(user, tournament_id) ==
    /\ engine = "tournament"
    /\ Answer("start", user, Some(tournament_id),
              StartStep(tournaments, credits, user, tournament_id))

TournamentInit ==
    /\ engine = "tournament"
    /\ credits = [u \in Accounts |-> 2 * DefaultCredits]
    /\ pre_credits = credits
    /\ pre = NoTournaments
    /\ state = NoGame
    /\ game = NoGame
    /\ agent_calls = <<>>
    /\ threads = <<>>
    /\ ai_model = ServingModel
    /\ game_end = NoEnd
    /\ last = NewRequest
    /\ steps = 0
    /\ ServicesStart

TournamentNext ==
    \/ \E user \in Accounts : \E buy_in \in BuyIns :
       \E max_players \in MaxPlayers : \E future \in BOOLEAN :
           create_tournament(user, buy_in, max_players, future)
    \/ \E user \in Accounts : \E tournament_id \in 1..MaxTournaments :
           register_for_tournament(user, tournament_id)
    \/ \E user \in Accounts : \E tournament_id \in 1..MaxTournaments :
           start_tournament(user, tournament_id)

SpecTournament == TournamentInit /\ [][TournamentNext]_vars

----------------------------------------------------------------------------
(* Two register requests for one tournament handled at the same time.      *)
(* register_for_tournament is a plain "def", run in a worker thread per    *)
(* request, each with its own database session; no row is locked and the   *)
(* tables have no unique constraint on (tournament_id, user_id).  A query  *)
(* sees what has been committed when it runs; the Tournament row stays in  *)
(* the session as it was loaded, and so does the User row of current_user. *)
(* threads[t] holds the request, the statement the thread is at, the rows  *)
(* loaded and the response.                                                *)
(*   pc: "load", "count", "existing", "commit", "done"                     *)

RegThreads == {1, 2}

\* The tournament of this part: created by alice for two players.
RegTournament == 1

RegStart == CreateStep(NoTournaments, [u \in Accounts |-> 2 * DefaultCredits],
                       "alice", 100, 2, TRUE)

RegThread(user) ==
    [user |-> user, pc |-> "load", tournament |-> <<>>, credits |-> 0,
     result |-> ""]

RegFrame ==
    UNCHANGED <<engine, game, state, pre, pre_credits, game_end, last, steps,
                agent_calls, ai_model, connection_manager, sockets>>

\* current_user and tournament are loaded; the status is checked.
RegLoad(t) ==
    /\ engine = "registration"
    /\ threads[t].pc = "load"
    /\ LET tournament == tournaments.tournaments[RegTournament]
       IN  threads' = [threads EXCEPT ![t] =
                          IF tournament.status # "registering"
                          THEN [@ EXCEPT !.pc = "done", !.result = "NotOpen"]
                          ELSE [@ EXCEPT !.pc = "count",
                                         !.tournament = tournament,
                                         !.credits = credits[threads[t].user]]]
    /\ UNCHANGED <<tournaments, credits>>
    /\ RegFrame

\* participants_count = db.query(...).count(), and the check against
\* max_players.
RegCount(t) ==
    /\ engine = "registration"
    /\ threads[t].pc = "count"
    /\ threads' = [threads EXCEPT ![t] =
                      IF Len(ParticipantsOf(tournaments, RegTournament))
                            >= threads[t].tournament.max_players
                      THEN [@ EXCEPT !.pc = "done", !.result = "Full"]
                      ELSE [@ EXCEPT !.pc = "existing"]]
    /\ UNCHANGED <<tournaments, credits>>
    /\ RegFrame

\* existing = db.query(...).first(), and the checks of existing and of the
\* credits.
RegExisting(t) ==
    /\ engine = "registration"
    /\ threads[t].pc = "existing"
    /\ LET rows == ParticipantsOf(tournaments, RegTournament)
       IN  threads' = [threads EXCEPT ![t] =
                          CASE \E i \in DOMAIN rows :
                                   rows[i].user_id = threads[t].user ->
                                 [@ EXCEPT !.pc = "done",
                                           !.result = "AlreadyRegistered"]
                            [] threads[t].credits
                                   < 2 * threads[t].tournament.buy_in ->
                                 [@ EXCEPT !.pc = "done",
                                           !.result = "NotEnoughCredits"]
                            [] OTHER -> [@ EXCEPT !.pc = "commit"]]
    /\ UNCHANGED <<tournaments, credits>>
    /\ RegFrame

\* The participant row is added, credits and prize_pool are written from
\* the loaded rows, and the session commits.
RegCommit(t) ==
    /\ engine = "registration"
    /\ threads[t].pc = "commit"
    /\ tournaments' =
          [tournaments  |->
              [tournaments.tournaments EXCEPT
                  ![RegTournament].prize_pool =
                      threads[t].tournament.prize_pool
                         + threads[t].tournament.buy_in],
           participants |->
              Append(tournaments.participants,
                     [tournament_id |-> RegTournament,
                      user_id       |-> threads[t].user,
                      status        |-> "registered"])]
    /\ credits' = [credits EXCEPT ![threads[t].user] =
                      threads[t].credits - 2 * threads[t].tournament.buy_in]
    /\ threads' = [threads EXCEPT ![t].pc = "done", ![t].result = "ok"]
    /\ RegFrame

\* alice has created the tournament, and two register requests arrive.
RegInit ==
    /\ engine = "registration"
    /\ tournaments = RegStart.db
    /\ credits = RegStart.credits
    /\ pre_credits = credits
    /\ pre = tournaments
    /\ \E u1 \in Accounts : \E u2 \in Accounts :
         threads = [t \in RegThreads |-> RegThread(IF t = 1 THEN u1 ELSE u2)]
    /\ state = NoGame
    /\ game = NoGame
    /\ agent_calls = <<>>
    /\ ai_model = ServingModel
    /\ game_end = NoEnd
    /\ last = NewRequest
    /\ steps = 0
    /\ connection_manager = NoConnections
    /\ sockets = NoSockets

RegNext ==
    \E t \in RegThreads :
        \/ RegLoad(t)
        \/ RegCount(t)
        \/ RegExisting(t)
        \/ RegCommit(t)

SpecRegistration == RegInit /\ [][RegNext]_vars

----------------------------------------------------------------------------
(* Vocabulary of the properties. *)

\* sum(bets[p] for p in players)
SumBets(g) == SumSeq([i \in DOMAIN g.players |-> g.bets[g.players[i]]])

RECURSIVE Flatten(_)
Flatten(seqs) == IF seqs = <<>> THEN <<>> ELSE Head(seqs) \o Flatten(Tail(seqs))

\* Every hole card of every player, then the community.
AllCards(g) ==
    Flatten([i \in DOMAIN g.players |-> g.hands[g.players[i]]]) \o g.community

PairwiseDistinct(q) == Cardinality(Range(q)) = Len(q)

IsPrefix(a, b) == Len(a) <= Len(b) /\ SubSeq(b, 1, Len(a)) = a

\* max(bets[p] for p in S), S non-empty
MaxBet(g, S) == CHOOSE m \in {g.bets[p] : p \in S} : \A q \in S : g.bets[q] <= m

\* Community length at which the spec allows each reveal.
StageLen(op) == CASE op = "flop" -> 0 [] op = "turn" -> 3 [] op = "river" -> 4

Reveals == {"flop", "turn", "river"}

\* The last request was handled by a front end that reaches the betting
\* logic (the REST handlers stop at RestRestoreRaises).
CoreFront == last.front \in {"mem", "ws"}

\* Whether the front end that handled the last request moves player q by
\* itself after a player's action.
Automated(q) ==
    IF last.front = "mem"
    THEN ~startswith(lower(NameChars(q)), <<"u", "s", "e", "r">>)
    ELSE startswith(NameChars(q), <<"a", "i">>)

BadRaise ==
    /\ last.op = "action"
    /\ last.action = "raise"
    /\ (last.amount = None \/ Value(last.amount) <= pre.current_bet)

SuccessfulFold ==
    /\ last.op = "action"
    /\ last.action = "fold"
    /\ last.player \in pre.active_players
    /\ last.result = "ok"

----------------------------------------------------------------------------
(* C1: in every state reached from a new game by player actions (fold,     *)
(* call, raise) and the automated moves they trigger, pot equals the sum   *)
(* of bets[p] over all players.                                            *)
C1_PotIsSumOfBets == Cur.pot = SumBets(Cur)

\* A call that was accepted and moved chips into the pot.
C1_Witness ==
    /\ last.op = "action" /\ last.action = "call" /\ last.result = "ok"
    /\ Cur.bets[last.player] > pre.bets[last.player]
    /\ Cur.pot > pre.pot

(* C2: all cards in all hands and in the community are pairwise distinct,  *)
(* also when the game is rebuilt from its snapshot before each reveal.     *)
C2_CardsPairwiseDistinct == PairwiseDistinct(AllCards(Cur))

(* C3: a flop succeeds only at community length 0, a turn only at 3, a     *)
(* river only at 4; a reveal requested at another length fails and leaves  *)
(* the game unchanged.                                                     *)
C3_RevealOnlyAtItsStage ==
    last.op \in Reveals =>
        /\ last.result = "ok" => Len(pre.community) = StageLen(last.op)
        /\ Len(pre.community) # StageLen(last.op) =>
               last.result # "ok" /\ Cur = pre

(* C4: the community has 0, 3, 4 or 5 cards and is only ever extended:     *)
(* the community before a request is a prefix of the community after it.   *)
C4_CommunityStagesAndGrowth ==
    /\ Len(Cur.community) \in {0, 3, 4, 5}
    /\ IsPrefix(pre.community, Cur.community)

(* C5 as stated: a raise request whose amount is absent or <= current_bet  *)
(* fails with the invalid-raise error and leaves the game unchanged.       *)
C5_BadRaiseIsInvalidRaise ==
    (CoreFront /\ BadRaise) => last.result = "InvalidRaise" /\ Cur = pre

(* C5 amended: such a request always fails and leaves the game unchanged   *)
(* (no automated move either); the failure is the invalid-raise error when *)
(* the player is in active_players and the player-not-active error         *)
(* otherwise.                                                              *)
C5_BadRaiseRejected ==
    (CoreFront /\ BadRaise) =>
        /\ Cur = pre
        /\ last.result = IF last.player \in pre.active_players
                         THEN "InvalidRaise" ELSE "PlayerNotActive"

\* An active player raised to an amount that is present and not above a
\* current_bet that somebody has raised before.
C5_Witness ==
    /\ CoreFront /\ BadRaise
    /\ last.amount # None
    /\ pre.current_bet > 0
    /\ last.player \in pre.active_players
    /\ last.result = "InvalidRaise"

(* C6: an action request by a player who is not in active_players fails    *)
(* with the player-not-active error and leaves the game unchanged; no      *)
(* request brings a player back into active_players.                       *)
C6_InactivePlayerRejected ==
    /\ (last.op = "action" /\ last.player \notin pre.active_players) =>
           last.result = "PlayerNotActive" /\ Cur = pre
    /\ Cur.active_players \subseteq pre.active_players

(* C7: right after a successful call or raise request, current_bet is the  *)
(* maximum of bets[p] over the players in active_players.                  *)
C7_CurrentBetIsMaxAfterCallOrRaise ==
    (/\ last.op = "action" /\ last.action \in {"call", "raise"}
     /\ last.result = "ok"
     /\ Cur.active_players # {}) =>
        Cur.current_bet = MaxBet(Cur, Cur.active_players)

(* C8: whenever active_players is non-empty, after every successful        *)
(* operation including fold, current_bet is the maximum of bets[p] over    *)
(* the players in active_players.  Stated for the in-memory front end.     *)
C8_CurrentBetIsMaxOfActiveBets ==
    (engine = "mem" /\ Cur.active_players # {}) =>
        Cur.current_bet = MaxBet(Cur, Cur.active_players)

(* C9: pot, current_bet and every bets[p] are >= 0 in every state, also    *)
(* after raises applied for automated players.                             *)
C9_AmountsNonNegative ==
    /\ Cur.pot >= 0
    /\ Cur.current_bet >= 0
    /\ \A p \in Range(Cur.players) : Cur.bets[p] >= 0

C11_CallAndRaiseRequests ==
    (engine = "mem" /\ last.op = "action" /\ last.result = "ok") =>
        /\ last.action = "call" => game = ApplyCall(pre, last.player)
        /\ last.action = "raise" =>
               game = ApplyRaise(pre, last.player, Value(last.amount))

\* The creation state of PokerGame.__init__ / deal.
CreationState(g) ==
    /\ g.pot = 0
    /\ g.current_bet = 0
    /\ \A p \in Range(g.players) : g.bets[p] = 0
    /\ g.active_players = Range(g.players)
    /\ g.community = <<>>

(* C12: right after creation pot = 0, current_bet = 0, every bet is 0,     *)
(* every player is active and the community is empty; every player holds   *)
(* exactly 2 cards, and no request changes any hand.                       *)
C12_CreationStateAndHands ==
    /\ steps = 0 => CreationState(Cur)
    /\ \A p \in Range(Cur.players) : Len(Cur.hands[p]) = 2
    /\ Cur.hands = pre.hands

\* Two requests later, a player has folded and cards have been revealed.
C12_Witness ==
    /\ steps = 2
    /\ Cur.active_players # Range(Cur.players)
    /\ Len(Cur.community) > 0
    /\ \A p \in Range(Cur.players) \ Cur.active_players : Len(Cur.hands[p]) = 2

(* C13: in the in-memory engine the remaining deck, the hole cards and the *)
(* community are pairwise disjoint and together make up the 52 cards,      *)
(* after construction and after every reveal, failed ones included.        *)
C13_DeckPartition ==
    engine = "mem" =>
        LET all == game.deck.cards \o AllCards(game)
        IN  /\ Len(all) = Len(OrderedCards)
            /\ Range(all) = Range(OrderedCards)

----------------------------------------------------------------------------
(* Vocabulary of the showdown properties. *)

\* The PokerGame that a backend handler builds from the stored snapshot.
Rebuilt == create_poker_game_from_state(state, AnyShuffle)

Score(g, p) == evaluate_hand(g.hands[p], g.community)

\* The active players whose score no active player exceeds.
BestPlayers(g) ==
    {p \in g.active_players :
        \A q \in g.active_players : Score(g, q) <= Score(g, p)}

\* The last request named winners and a share of the pot.
Resolved == game_end.kind \in {"game_end", "showdown"}

(* C14: decide_winner returns exactly the active players whose evaluator   *)
(* score is the maximum over the active players, each once, in whatever    *)
(* order the set is iterated; no folded player is among them, and the      *)
(* result is non-empty whenever active_players is.                         *)
C14_WinnersAreTheBestActivePlayers ==
    engine = "backend" =>
        /\ \A order \in Orderings(Rebuilt.active_players) :
               LET winners == decide_winner(Rebuilt, order)
               IN  /\ Range(winners) = BestPlayers(Rebuilt)
                   /\ PairwiseDistinct(winners)
                   /\ Range(winners) \subseteq Rebuilt.active_players
                   /\ Rebuilt.active_players # {} => winners # <<>>
        /\ (Resolved /\ Cardinality(Rebuilt.active_players) # 1) =>
               Range(game_end.winners) = BestPlayers(Rebuilt)

\* Two active players tied for the best score and both were named.
C14_Witness ==
    /\ Resolved
    /\ Cardinality(Cur.active_players) = 2
    /\ Len(game_end.winners) = 2

(* C15: pot_per_winner times the number of winners is the pot; when two    *)
(* active players have the same maximum score both are winners and         *)
(* pot_per_winner is half the pot.  (Shares are counted in half chips.)    *)
C15_PotSplitEvenly ==
    Resolved =>
        /\ game_end.pot_per_winner * Len(game_end.winners) = 2 * Cur.pot
        /\ Cardinality(BestPlayers(Rebuilt)) = 2 =>
               /\ Range(game_end.winners) = Cur.active_players
               /\ Len(game_end.winners) = 2
               /\ game_end.pot_per_winner = Cur.pot

\* A pot with chips in it was split between two tied players.
C15_Witness ==
    /\ Resolved
    /\ Len(game_end.winners) = 2
    /\ Cur.pot > 0
    /\ game_end.pot_per_winner = Cur.pot

(* C16: when a WebSocket request leaves exactly one player active, the     *)
(* hand is resolved with that player as the only winner and pot_per_winner *)
(* equal to the whole pot, whatever the cards are; decide_winner, too,     *)
(* returns the sole active player.                                         *)
C16_SoleRemainingPlayerWins ==
    /\ (last.front = "ws" /\ last.result = "ok"
            /\ Cardinality(Cur.active_players) = 1) =>
           /\ game_end.kind = "game_end"
           /\ Len(game_end.winners) = 1
           /\ Range(game_end.winners) = Cur.active_players
           /\ game_end.pot_per_winner = 2 * Cur.pot
    /\ (engine = "backend" /\ Cardinality(Cur.active_players) = 1) =>
           \A order \in Orderings(Rebuilt.active_players) :
               decide_winner(Rebuilt, order) = order

\* The player who folded held the better cards, and the pot was not empty.
C16_Witness ==
    /\ game_end.kind = "game_end"
    /\ Cardinality(Cur.active_players) = 1
    /\ Cur.pot > 0
    /\ \E f \in Range(Cur.players) \ Cur.active_players :
       \E w \in Cur.active_players :
           Score(Rebuilt, f) > Score(Rebuilt, w)

(* C17: a showdown request on a hand with active players credits every     *)
(* winner who has an account with pot_per_winner (pot / number of          *)
(* winners), whoever sent the request.                                     *)
C17_EveryWinnerCredited ==
    (last.op = "showdown" /\ Cur.active_players # {}) =>
        \A w \in BestPlayers(Rebuilt) \cap Users :
            credits[w] = pre_credits[w]
                           + HalfChips(Cur.pot, Cardinality(BestPlayers(Rebuilt)))

(* C18: winners are named and the pot is paid only in a terminal state:    *)
(* exactly one active player, or a community of 5 cards with a showdown    *)
(* explicitly requested.                                                   *)
C18_PayoutOnlyInTerminalState ==
    Resolved =>
        \/ Cardinality(Cur.active_players) = 1
        \/ (Len(Cur.community) = 5 /\ last.op = "showdown")

PocketPair(g, p) ==
    Len(g.hands[p]) = 2 /\ g.hands[p][1].rank = g.hands[p][2].rank

\* The hole cards of p whose rank also appears in the community.
CommunityMatches(g, p) ==
    {i \in DOMAIN g.hands[p] :
        \E j \in DOMAIN g.community : g.community[j].rank = g.hands[p][i].rank}

\* Rank value 2..14 (Ace high) of the highest card of p's hole cards and
\* the community.
HighCard(g, p) ==
    LET all_cards == g.hands[p] \o g.community
    IN  CHOOSE m \in {hand_ranks(all_cards[i].rank) : i \in DOMAIN all_cards} :
            \A i \in DOMAIN all_cards : hand_ranks(all_cards[i].rank) <= m

(* C19: the evaluator adds a bonus for a pocket pair and for each hole     *)
(* card matched in the community to the rank of the highest card, so of    *)
(* two players with the same highest card the one with a pocket pair       *)
(* scores strictly higher than one with no pair and no community match.    *)
C19_PocketPairOutscoresHighCard ==
    engine = "backend" =>
        \A p, q \in Range(Rebuilt.players) :
            (/\ PocketPair(Rebuilt, p)
             /\ ~PocketPair(Rebuilt, q)
             /\ CommunityMatches(Rebuilt, q) = {}
             /\ HighCard(Rebuilt, p) = HighCard(Rebuilt, q)) =>
                Score(Rebuilt, p) > Score(Rebuilt, q)

(* C20: a raise proposed by the random agent or by the classifier agent    *)
(* carries an amount strictly greater than the current_bet of the state    *)
(* the agent was given.                                                    *)
C20_AgentRaisesAboveCurrentBet ==
    engine = "backend" =>
        \A p \in state.active_players :
            /\ Value(ai_choose_action(state, p, "raise").amount) > state.current_bet
            /\ Value(predict_action(state, p, 2).amount) > state.current_bet

----------------------------------------------------------------------------
(* Agents, views and the deck. *)

(* C21: every agent decision is taken for a player who is in               *)
(* active_players of the state given to the agent, in the automated moves  *)
(* after an action and in the AI-action endpoint.                          *)
C21_AgentOnlyForActivePlayers ==
    \A i \in DOMAIN agent_calls : agent_calls[i].active

\* Position of player p in the players sequence.
Seat(players, p) == CHOOSE i \in DOMAIN players : players[i] = p

(* C23: the automated players that move after an action move in the order  *)
(* of the players sequence.                                                *)
C23_AutomatedPlayersActInSeatingOrder ==
    last.op = "action" =>
        \A i, j \in DOMAIN agent_calls :
            i < j => Seat(Cur.players, agent_calls[i].player)
                       < Seat(Cur.players, agent_calls[j].player)

\* The snapshot of the current game, as an agent is given it.
Snapshot == IF engine = "mem" THEN to_dict(game) ELSE state

\* A random decision as the spec describes it, for a state with the given
\* current_bet.
RandomDecisionOk(action, amount, current_bet) ==
    /\ action \in {"fold", "call", "raise"}
    /\ action = "raise" => amount = Some(current_bet + 10)
    /\ action # "raise" => amount = None

(* C27: the random agent returns fold, call or raise, each of them being a *)
(* possible result on every state; a raise carries current_bet + 10, fold  *)
(* and call carry no amount.  The same holds for the random moves of the   *)
(* in-memory front end.                                                    *)
C27_RandomAgentDecisions ==
    /\ \A p \in {Snapshot.players[i] : i \in 1..Min(Len(Snapshot.players), 3)} :
           /\ \A choice \in AgentActions :
                  LET d == ai_choose_action(Snapshot, p, choice)
                  IN  RandomDecisionOk(d.action, d.amount, Snapshot.current_bet)
           /\ {ai_choose_action(Snapshot, p, choice).action : choice \in AgentActions}
                  = {"fold", "call", "raise"}
    /\ engine = "mem" =>
           \A i \in DOMAIN agent_calls :
               RandomDecisionOk(agent_calls[i].action, agent_calls[i].amount,
                                agent_calls[i].current_bet)

\* A random raise over a bet that was already raised, after another
\* automated player had folded or called.
C27_Witness ==
    /\ engine = "mem"
    /\ \E i, j \in DOMAIN agent_calls :
          /\ i < j
          /\ agent_calls[i].action \in {"fold", "call"}
          /\ agent_calls[j].action = "raise"
          /\ agent_calls[j].current_bet > 0
          /\ agent_calls[j].amount = Some(agent_calls[j].current_bet + 10)

\* Hands that another player might hold instead.
OtherHands ==
    { <<CardStr(OrderedCards[1]), CardStr(OrderedCards[2])>>,
      <<CardStr(OrderedCards[13]), CardStr(OrderedCards[52])>> }

(* C24: in the view built for an observer every hole card of every other   *)
(* player is "??", the observer's own cards and all other fields are the   *)
(* state's; the view does not depend on the other players' hole cards, and *)
(* building it leaves the state as it was.                                 *)
C24_ViewHidesOtherPlayersCards ==
    engine = "backend" =>
        \A observer \in Range(state.players) \cup {"bob"} :
            LET call == create_player_view(state, observer)
                view == call.view
            IN  /\ \A q \in Range(state.players) \ {observer} :
                       /\ Len(view.hands[q]) = Len(state.hands[q])
                       /\ \A i \in DOMAIN view.hands[q] : view.hands[q][i] = Hidden
                /\ observer \in Range(state.players) =>
                       view.hands[observer] = state.hands[observer]
                /\ [view EXCEPT !.hands = state.hands] = state
                /\ \A q \in Range(state.players) \ {observer} :
                   \A h \in OtherHands :
                       create_player_view([state EXCEPT !.hands[q] = h],
                                          observer).view = view
                /\ call.game_state = state

\* A game_update was sent after a WebSocket request; alice's view shows her
\* cards and hides those of ai_player.
C24_Witness ==
    /\ last.front = "ws" /\ last.result = "ok"
    /\ state.pot > 0
    /\ create_player_view(state, "alice").view.hands["ai_player"] = <<Hidden, Hidden>>
    /\ create_player_view(state, "alice").view.hands["alice"] = state.hands["alice"]
    /\ Hidden \notin Range(state.hands["ai_player"])

(* C25: a draw of n cards from a deck with fewer than n cards fails and    *)
(* removes no card: deck, hands and community are as before.               *)
C25_FailedDrawRemovesNothing ==
    (engine = "mem" /\ last.result = "IndexError") => game = pre

(* C26: creating a game fails exactly when 2 * players + 5 > 52, so every  *)
(* game that exists can deal its hole cards and the five community cards.  *)
C26_PlayerCountChecked ==
    /\ engine = "mem" => 2 * Len(game.players) + 5 <= Len(OrderedCards)
    /\ \A players \in MemPlayerLists :
       \A k \in ShuffleChoices :
           PokerGameOk(players, k) <=> 2 * Len(players) + 5 <= Len(OrderedCards)

----------------------------------------------------------------------------
(* The classifier agent, under SpecAgent. *)

(* C28: whatever goes wrong with loading or persisting the classifier      *)
(* file, constructing the agent raises no error and leaves a model that is *)
(* ready, bootstrapped if it could not be loaded.                          *)
C28_LoadFailureFallsBack ==
    (engine = "agent" /\ last.op = "construct") =>
        /\ last.result = "ok"
        /\ ai_model.status = "ready"
        /\ pre.file # "valid" => ai_model.origin = "bootstrap"

(* C29: update_model with a non-empty history fits the classifier again    *)
(* and persists it.                                                        *)
C29_RetrainFitsAndPersists ==
    (engine = "agent" /\ last.op = "update_model" /\ Value(last.amount) > 0) =>
        /\ ai_model.fits = pre.fits + 1
        /\ ai_model.saves = pre.saves + 1

(* C30: when the classifier selects raise the amount is                    *)
(* min(3 * current_bet, remaining_chips) for hand_strength > 0.8,          *)
(* min(2 * current_bet, remaining_chips) for 0.6 < hand_strength <= 0.8    *)
(* and current_bet + 10 otherwise, remaining_chips being 1000 - bets of    *)
(* the player; hand_strength is within 0..1; fold and call carry no        *)
(* amount.  (Strengths are in units of 1/140: 0.8 is 112, 0.6 is 84.)      *)
C30_RaiseTiers ==
    (engine = "agent" /\ last.op = "predict_action") =>
        LET hand_strength   == evaluate_hand_strength(state.hands[last.player],
                                                      state.community)
            current_bet     == state.current_bet
            remaining_chips == StartingChips - state.bets[last.player]
        IN  /\ 0 <= hand_strength /\ hand_strength <= 140
            /\ last.action \in {"fold", "call", "raise"}
            /\ last.action = "raise" =>
                   last.amount =
                      Some(IF hand_strength > 112
                           THEN Min(3 * current_bet, remaining_chips)
                           ELSE IF hand_strength > 84 /\ hand_strength <= 112
                                THEN Min(2 * current_bet, remaining_chips)
                                ELSE current_bet + 10)
            /\ last.action # "raise" => last.amount = None

\* A raise with a strong hand that the remaining chips cap: 980 of 1000
\* chips left against a current bet of 400.
C30_Witness ==
    /\ engine = "agent" /\ last.op = "predict_action"
    /\ last.action = "raise"
    /\ evaluate_hand_strength(state.hands[last.player], state.community) = 140
    /\ state.current_bet = 400
    /\ last.amount = Some(980)

----------------------------------------------------------------------------
(* Concurrent requests, under SpecRace. *)

(* C22: when two mutating requests on the same game have been handled      *)
(* concurrently, their responses and the game are those of handling them   *)
(* one after the other in some order, and the pot equals the sum of the    *)
(* bets.                                                                   *)
C22_ConcurrentRequestsSerialized ==
    (engine = "race" /\ \A t \in RaceThreads : threads[t].pc = "done") =>
        /\ \/ [first |-> threads[1].result, second |-> threads[2].result,
               game |-> game]
                 \in OneAfterTheOther(pre, threads[1].req, threads[2].req)
           \/ [first |-> threads[2].result, second |-> threads[1].result,
               game |-> game]
                 \in OneAfterTheOther(pre, threads[2].req, threads[1].req)
        /\ game.pot = SumBets(game)

----------------------------------------------------------------------------
(* Snapshots, under SpecSnapshot. *)

(* C31: a snapshot returned by to_dict is an independent copy: after any   *)
(* later call, raise, fold or reveal it still shows the pot, current_bet,  *)
(* bets, active_players, hands and community of the moment it was taken.   *)
C31_SnapshotIsIndependent ==
    (engine = "mem" /\ state # NoGame) => Shows(state, game) = state

----------------------------------------------------------------------------
(* Card tokens and the rebuilt game, under Spec. *)

(* C32: writing a card as a token (rank, then one suit character) and      *)
(* reading the token back (last character the suit, the rest the rank) is  *)
(* a round trip for all 52 cards, rank "10" included; so a game serialised *)
(* with to_dict and rebuilt with create_poker_game_from_state has the same *)
(* players, hands, community, pot, current_bet, active_players and bets.   *)
C32_TokenRoundTrip ==
    /\ \A i \in DOMAIN OrderedCards :
          CardFromToken(CardStr(OrderedCards[i])) = OrderedCards[i]
    /\ engine = "backend" =>
          \A k \in ShuffleChoices :
             to_dict(create_poker_game_from_state(state, k)) = state
    /\ engine = "mem" =>
          \A k \in ShuffleChoices :
             LET g == create_poker_game_from_state(to_dict(game), k)
             IN  /\ g.players = game.players
                 /\ g.hands = game.hands
                 /\ g.community = game.community
                 /\ g.pot = game.pot
                 /\ g.current_bet = game.current_bet
                 /\ g.active_players = game.active_players
                 /\ g.bets = game.bets

\* A stored game with a ten among its cards has been rebuilt by a handler
\* and stored again.
C32_Witness ==
    /\ engine = "backend"
    /\ last.op # "create"
    /\ last.result = "ok"
    /\ \E i \in DOMAIN state.community : Len(state.community[i]) = 3
    /\ pre # state

----------------------------------------------------------------------------
(* Payouts and bets over a hand, under Spec. *)

\* The credits added to the accounts since the game was created, in half
\* chips.
Credited ==
    LET us == CHOOSE o \in Orderings(Users) : TRUE
    IN  SumSeq([i \in DOMAIN us |-> credits[us[i]] - 2 * DefaultCredits])

(* C34: within one hand the pot is paid out at most once: whatever player  *)
(* actions, game-control commands and showdown requests are handled, the   *)
(* total credited to users for the hand does not exceed the pot.           *)
C34_PotPaidAtMostOnce ==
    engine = "backend" => Credited <= 2 * state.pot

(* C35: winners are never computed with no active player, so that          *)
(* pot / len(winners) is defined; the human and the automated players      *)
(* cannot all have folded.                                                 *)
C35_WinnersNeverEmpty ==
    /\ (game_end.kind # "none" \/ last.op = "showdown") =>
           /\ Cur.active_players # {}
           /\ game_end.kind # "ZeroDivisionError"
           /\ last.result # "ZeroDivisionError"
    /\ Cur.active_players # {}

(* C36: within a hand current_bet never decreases: every action applied,   *)
(* by a human or for an automated player, leaves current_bet at least what *)
(* it was before the action.                                               *)
C36_CurrentBetNeverDecreases ==
    last.op = "action" =>
        /\ PlayerStep(IF engine = "mem" THEN pre ELSE
                         create_poker_game_from_state(pre, AnyShuffle),
                      last.player, last.action, last.amount).game.current_bet
              >= pre.current_bet
        /\ \A i \in DOMAIN agent_calls :
              (agent_calls[i].action = "raise" /\ agent_calls[i].amount # None) =>
                  Value(agent_calls[i].amount) >= agent_calls[i].current_bet
        /\ Cur.current_bet >= pre.current_bet

----------------------------------------------------------------------------
(* The connection registry and the messages, under SpecConnections. *)

\* The sockets in the connection list of some table.
Listed ==
    UNION { Range(connection_manager.table_connections[t]) :
              t \in DOMAIN connection_manager.table_connections }

(* C37: after any connects and disconnects, also of one username with a    *)
(* new socket or at another table, user_connections and user_tables have   *)
(* the same usernames, each registered user's socket is in the connection  *)
(* list of the user's table, and a disconnected socket is in no list.      *)
C37_RegistryConsistent ==
    engine = "connections" =>
        /\ DOMAIN connection_manager.user_connections
              = DOMAIN connection_manager.user_tables
        /\ \A u \in DOMAIN connection_manager.user_connections :
              connection_manager.user_connections[u]
                 \in Range(connection_manager.table_connections[
                               connection_manager.user_tables[u]])
        /\ \A ws \in DOMAIN sockets : ~sockets[ws].open => ws \notin Listed

\* The message shows no hole card of a player other than username.
HidesOthers(message, username) ==
    message.state # NoGame =>
        \A p \in DOMAIN message.state.hands \ {username} :
            \A i \in DOMAIN message.state.hands[p] :
                message.state.hands[p][i] = Hidden

(* C38: no message delivered to a connected user shows another player's    *)
(* hole cards: initial_state and every game_update carry the view made for *)
(* the user they are sent to.                                              *)
C38_MessagesHideOtherHands ==
    engine = "connections" =>
        \A ws \in DOMAIN sockets :
            \A message \in sockets[ws].delivered :
                HidesOthers(message, sockets[ws].username)

----------------------------------------------------------------------------
(* Tournaments, under SpecTournament. *)

\* The tournament the last request named, as it was before the request.
Named == pre.tournaments[Value(last.amount)]

NamedExists ==
    /\ engine = "tournament"
    /\ last.op \in {"register", "start"}
    /\ Value(last.amount) \in DOMAIN pre.tournaments

(* C33: a tournament is started only by its creator, only while its status *)
(* is REGISTERING and only with at least 2 participants; a start that      *)
(* succeeds sets the tournament and all its participants to ACTIVE; once   *)
(* the status is ACTIVE every later register or start request fails and    *)
(* leaves the tournament, its participants, its prize pool and the users'  *)
(* credits unchanged.                                                      *)
C33_StartOnceByCreator ==
    NamedExists =>
        /\ (last.op = "start" /\ last.result = "ok") =>
              /\ Named.created_by_id = last.player
              /\ Named.status = "registering"
              /\ Len(ParticipantsOf(pre, Value(last.amount))) >= 2
              /\ tournaments.tournaments[Value(last.amount)].status = "active"
              /\ LET rows == ParticipantsOf(tournaments, Value(last.amount))
                 IN  /\ Len(rows) = Len(ParticipantsOf(pre, Value(last.amount)))
                     /\ \A i \in DOMAIN rows : rows[i].status = "active"
        /\ Named.status = "active" =>
              /\ last.result # "ok"
              /\ tournaments = pre
              /\ credits = pre_credits

\* A register request by a user who is not yet a participant, with enough
\* credits and a free seat, was refused because the tournament had been
\* started.
C33_Witness ==
    /\ NamedExists
    /\ last.op = "register"
    /\ Named.status = "active"
    /\ Named.max_players = 3
    /\ Len(ParticipantsOf(pre, Value(last.amount))) = 2
    /\ \A i \in DOMAIN pre.participants : pre.participants[i].user_id # last.player
    /\ credits[last.player] >= 2 * Named.buy_in
    /\ last.result = "NotOpen"

(* C39: no user's credits become negative by creating a tournament or      *)
(* registering for one: the buy-in is deducted only from credits that are  *)
(* at least the buy-in.                                                    *)
C39_CreditsNeverNegative ==
    engine = "tournament" =>
        /\ \A u \in Accounts : credits[u] >= 0
        /\ \A u \in Accounts :
              credits[u] < pre_credits[u] =>
                  pre_credits[u] >= pre_credits[u] - credits[u]

----------------------------------------------------------------------------
(* Concurrent registrations, under SpecRegistration. *)

(* C40: the number of participants of a tournament never exceeds           *)
(* max_players and no user is registered twice in one tournament, also     *)
(* when register requests for the tournament are handled concurrently.     *)
C40_SeatsAndUsersUnique ==
    engine = "registration" =>
        LET rows == ParticipantsOf(tournaments, RegTournament)
        IN  /\ Len(rows) <= tournaments.tournaments[RegTournament].max_players
            /\ \A i, j \in DOMAIN rows :
                  rows[i].user_id = rows[j].user_id => i = j

====
